---- MODULE Spec2Model ----
(***************************************************************************)
(* A model of the gossip-glomers repository: the Maelstrom node runtime    *)
(* (src/src/node.rs, and its earlier form in src/src/lib.rs), and the      *)
(* workloads built on it (counter, broadcast, unique_ids, echo).           *)
(*                                                                         *)
(* Spec        one node process, step by step: the binary that is run is   *)
(*             chosen in Init; the harness (clients, seq-kv, peer nodes)   *)
(*             is the environment.                                         *)
(* Cluster     several broadcast nodes and the lossy network between them, *)
(*             one action per handler.                                     *)
(***************************************************************************)
EXTENDS Integers, Sequences, FiniteSets, TLC

\* ------------------------------------------------------------------ bounds
\* Request lines the harness writes to the node's stdin in one run.
MaxRequests == 2
\* Times one gossip task may time out and retry.
MaxRetries == 1
\* Broadcast requests the clients send to the cluster.
MaxBroadcasts == 1
\* Messages the network between the nodes of the cluster loses.
MaxLoss == 1
\* Read requests the clients send to the cluster.
MaxReads == 2

\* ------------------------------------------------------- program constants
\* Option::None of a msg_id / in_reply_to (u64 values are >= 0).
None == -1
\* Maelstrom error codes.
CRASH == 13
ABORT == 14
KEY_DOES_NOT_EXIST == 20
PRECONDITION_FAILED == 22
NOT_SUPPORTED == 10
TEMPORARILY_UNAVAILABLE == 11
MALFORMED_REQUEST == 12
NODE_NOT_FOUND == 1

\* ------------------------------------------------------------ identities
\* A node name is its kind prefix and its number: "n0" is <<"n", 0>>.
node_id(id) == <<"n", id>>
ParseError == -2
parse_node_id(name) == IF name[1] = "n" /\ name[2] >= 0 THEN name[2] ELSE ParseError


SelfId == 0
PeerIds == {1, 2}
Client == <<"c", 1>>
SeqKv == <<"seq-kv", 0>>

\* ------------------------------------------------------------- messages
\* One line of JSON: the envelope and the payload's fields (type, and the one
\* number, key or topology the payload carries).
\* A topology is a set of pairs of a node's name and the names of its neighbors.
NoTopo == {}
NoKey == <<"", 0>>
NoId == <<>>
Msg(src, dest, msg_id, in_reply_to, type, val) ==
    [src |-> src, dest |-> dest, msg_id |-> msg_id, in_reply_to |-> in_reply_to,
     type |-> type, key |-> NoKey, val |-> val, messages |-> {}, topo |-> NoTopo,
     id |-> NoId]
NoLine == Msg(Client, Client, None, None, "", 0)
\* A line that is no JSON, or no message the binary knows.
Undecodable == Msg(<<"", 0>>, <<"", 0>>, None, None, "garbage", 0)
\* A well-formed envelope of a client whose payload's type is none of the
\* binary's payload enum.
UnknownType == Msg(Client, node_id(SelfId), 0, None, "unknown", 0)
\* serde_json::from_str::<MaelstromMessage<P>> returns Ok for the line.
Decodable(line) == line.type \notin {"garbage", "unknown"}

VARIABLES
    bin,            \* the binary this process runs
    runpc,          \* the process: "init", "loop", "wait" (for the tracker), "done",
                    \* or "failed" (no init message), "panicked"
    cancelled,      \* the cancellation token
    nreq,           \* request lines read from stdin so far
    next_msg_id,    \* Node::next_msg_id
    response_map,   \* Node::response_map: msg_id -> the sender of a call's channel
    tasks,          \* the handler tasks and gossip tasks spawned so far
    routing,        \* the spawned tasks of reply lines that have not run yet
    out,            \* the lines printed to stdout
    last,           \* the line printed last
    net,            \* requests printed and not yet served by their destination
    kv,             \* the seq-kv service: key -> stored value
    held,           \* history: the states seq-kv has been in
    uuid_count,     \* the counter of the clock sequences of Uuid::now_v6
    seen,           \* BroadcastHandler::seen_messages
    neighbors,      \* BroadcastHandler::neighbors (a OnceLock)
    \* the cluster of broadcast nodes
    c_seen,         \* seen_messages of each node
    c_neighbors,    \* neighbors of each node
    c_tasks,        \* the gossip tasks the nodes have spawned
    c_wire,         \* gossip requests and their replies between the nodes
    c_out,          \* the replies the nodes have printed to clients, and their errors
    c_sent,         \* broadcast requests the clients have sent
    c_lost          \* messages the network has lost

run == <<bin, runpc, cancelled, nreq>>
stdout == <<out, last, net>>
handler == <<kv, held, uuid_count, seen, neighbors>>
nvars == <<bin, runpc, cancelled, nreq, next_msg_id, response_map, tasks, routing,
           out, last, net, kv, held, uuid_count, seen, neighbors>>
cvars == <<c_seen, c_neighbors, c_tasks, c_wire, c_out, c_sent, c_lost>>
vars == <<nvars, cvars>>

\* ------------------------------------------------------------- helpers
Remove(m, k) == [x \in DOMAIN m \ {k} |-> m[x]]
Insert(m, k, v) == [x \in DOMAIN m \cup {k} |-> IF x = k THEN v ELSE m[x]]
Range(f) == {f[x] : x \in DOMAIN f}

Me == node_id(SelfId)
Alive == runpc \in {"loop", "wait"}
NodeBins == {"counter", "broadcast", "unique_ids"}

\* ------------------------------------------------------------ tasks, calls
\* A send_rpc call: its request, the state of its oneshot channel, its result.
NoCall ==
    [n |-> 0, req |-> NoLine, msg_id |-> None, tmo |-> FALSE, st |-> "none",
     chan |-> "none", got |-> NoLine, res |-> ""]

NewCall(n, m, tmo) ==
    [n |-> n, req |-> m, msg_id |-> m.msg_id, tmo |-> tmo, st |-> "alloc",
     chan |-> "none", got |-> NoLine, res |-> ""]

NewTask(kind, line) ==
    [kind |-> kind, line |-> line, pc |-> "spawned", call |-> NoCall, ncalls |-> 0,
     val |-> 0, todo |-> <<>>, retries |-> 0, err |-> None]

Finished(t) == tasks[t].pc \in {"done", "panicked", "cancelled", "failed"}
IsReply(line) == line.in_reply_to # None

\* A counter that is read and not advanced.
fetch_same(n) == n

\* AtomicU64::fetch_add(1): the counter after it.
fetch_add(n) == n + 1

\* ------------------------------------------------------------ Node (node.rs)
\* fire_and_forget: one println of one envelope.
fire_and_forget(msg_id, in_reply_to, dest, type, val) ==
    Msg(Me, dest, msg_id, in_reply_to, type, val)

\* A reply addressed to the source's dest.
reply_to_dest(source_msg, type, val) ==
    fire_and_forget(None, source_msg.msg_id, source_msg.dest, type, val)

\* reply: no msg_id of its own, in_reply_to the source's msg_id, dest its src.
reply(source_msg, type, val) ==
    fire_and_forget(None, source_msg.msg_id, source_msg.src, type, val)

\* An error reply addressed to the request's dest, the node itself.
error_reply_to_dest(request_msg, code) ==
    fire_and_forget(None, request_msg.msg_id, request_msg.dest, "error", code)

\* The envelope of an error a handler returned.
error_reply(request_msg, code) ==
    fire_and_forget(None, request_msg.msg_id, request_msg.src, "error", code)

\* From<GlomerError> for MaelstromError: everything but an I/O timeout is a crash.
glomer_to_maelstrom(e) == CRASH

\* stdout and the network after one println.
Printed(m) ==
    /\ out' = out \cup {m}
    /\ last' = m
    /\ net' = IF m.in_reply_to = None THEN net \cup {m} ELSE net

\* send_rpc, first step: the msg_id is taken from the counter.  `task` is the
\* caller's record as it will wait for this call.
RpcStart(t, task, dest, type, key, v, tmo) ==
    LET m == [fire_and_forget(next_msg_id, None, dest, type, v) EXCEPT !.key = key] IN
    /\ next_msg_id' = fetch_add(next_msg_id)
    /\ tasks' = [tasks EXCEPT ![t] = [task EXCEPT !.call = NewCall(task.ncalls + 1, m, tmo),
                                                  !.ncalls = @ + 1]]

\* send_rpc, next step: the request is printed with that msg_id.
RpcEmit(t) ==
    /\ Alive /\ tasks[t].call.st = "alloc"
    /\ Printed(tasks[t].call.req)
    /\ tasks' = [tasks EXCEPT ![t].call.st = "emitted"]
    /\ UNCHANGED <<run, next_msg_id, response_map, routing, handler>>
    /\ UNCHANGED cvars

\* A sender that finds its receiver whatever has become of the call.
OpenAlways(e) == tasks[e.task].call.n = e.n

\* The receiver that a sender of the map belongs to is still there, and empty.
Open(e) == tasks[e.task].call.n = e.n /\ tasks[e.task].call.chan = "empty"

\* send_rpc, next step: the oneshot channel is made and its sender stored
\* under the msg_id.
RpcInsert(t) ==
    LET k == tasks[t].call.msg_id IN
    /\ Alive /\ tasks[t].call.st = "emitted"
    /\ response_map' = Insert(response_map, k, [task |-> t, n |-> tasks[t].call.n])
    /\ tasks' = [tasks EXCEPT ![t].call.st = "wait", ![t].call.chan = "empty"]
    /\ UNCHANGED <<run, next_msg_id, routing, stdout, handler>>
    /\ UNCHANGED cvars

\* A timeout that elapses and leaves the receiver open.
RpcElapsedKeepsReceiver(t) ==
    /\ Alive /\ tasks[t].call.st = "wait" /\ tasks[t].call.tmo
    /\ tasks[t].call.chan = "empty"
    /\ tasks[t].retries < MaxRetries
    /\ tasks' = [tasks EXCEPT ![t].call.st = "elapsed"]
    /\ UNCHANGED <<run, next_msg_id, response_map, routing, stdout, handler>>
    /\ UNCHANGED cvars

\* timeout(timeout_duration, rx) elapses: the select! is over and drops rx.
\* Time is not modelled: the deadline may pass whenever no reply is in the channel.
RpcElapsed(t) ==
    /\ Alive /\ tasks[t].call.st = "wait" /\ tasks[t].call.tmo
    /\ tasks[t].call.chan = "empty"
    /\ tasks[t].retries < MaxRetries
    /\ tasks' = [tasks EXCEPT ![t].call.st = "elapsed", ![t].call.chan = "closed"]
    /\ UNCHANGED <<run, next_msg_id, response_map, routing, stdout, handler>>
    /\ UNCHANGED cvars

\* The Err(_) arm: the entry is removed and the call returns Timeout.
RpcTimeoutRemove(t) ==
    /\ Alive /\ tasks[t].call.st = "elapsed"
    /\ response_map' = Remove(response_map, tasks[t].call.msg_id)
    /\ tasks' = [tasks EXCEPT ![t].call.st = "returned", ![t].call.res = "timeout"]
    /\ UNCHANGED <<run, next_msg_id, routing, stdout, handler>>
    /\ UNCHANGED cvars

\* The cancelled() arm of the select!: the call returns Abort; the entry stays.
RpcAbort(t) ==
    /\ Alive /\ tasks[t].call.st = "wait" /\ tasks[t].call.tmo
    /\ cancelled
    /\ tasks' = [tasks EXCEPT ![t].call.st = "returned", ![t].call.res = "abort",
                              ![t].call.chan = "closed"]
    /\ UNCHANGED <<run, next_msg_id, response_map, routing, stdout, handler>>
    /\ UNCHANGED cvars

\* The call of task t has a result for its caller.
Ready(t) ==
    \/ tasks[t].call.st = "returned"
    \/ tasks[t].call.st = "wait" /\ tasks[t].call.chan = "full"

\* UntaggedRpcMessage<R>: the payload is an R, or else a MaelstromError, or else
\* the line does not deserialize.
RpcResult(t, ResponseTypes) ==
    LET c == tasks[t].call
        l == c.got
    IN  IF c.st = "returned" THEN [kind |-> c.res, type |-> "", val |-> 0]
        ELSE IF l.type \in ResponseTypes THEN [kind |-> "ok", type |-> l.type, val |-> l.val]
        ELSE IF l.type = "error" THEN [kind |-> "maelstrom", type |-> "error", val |-> l.val]
        ELSE [kind |-> "serde", type |-> "", val |-> 0]

\* Task t after its call has handed over its result.
Returned(t) ==
    [tasks[t] EXCEPT !.call.st = "returned", !.call.chan = "closed",
                     !.call.res = IF @ = "" THEN "reply" ELSE @]

\* ------------------------------------------------------ Node::init (node.rs)
\* The first line Maelstrom writes, and a first line that is no init message.
InitMsg == Msg(<<"c", 0>>, Me, 1, None, "init", 0)
FirstLines == {InitMsg, Msg(Client, Me, 1, None, "read", 0)}

\* An init that prints nothing.
NodeInitSilent(line) ==
    /\ runpc = "init" /\ bin \in NodeBins
    /\ runpc' = IF line.type = "init" THEN "loop" ELSE "failed"
    /\ UNCHANGED <<bin, cancelled, nreq, next_msg_id, response_map, tasks, routing, stdout, handler>>
    /\ UNCHANGED cvars

\* Node::init: the first line is read and parsed as the init message, the
\* node is made and init_ok is the reply; a line that is no init message is
\* an error main returns with.
NodeInit(line) ==
    /\ runpc = "init" /\ bin \in NodeBins
    /\ IF line.type = "init"
       THEN /\ Printed(reply(line, "init_ok", 0))
            /\ runpc' = "loop"
       ELSE /\ runpc' = "failed"
            /\ UNCHANGED stdout
    /\ UNCHANGED <<bin, cancelled, nreq, next_msg_id, response_map, tasks, routing, handler>>
    /\ UNCHANGED cvars

\* ------------------------------------------------------- Node::run (node.rs)
\* A lookup that takes the oldest entry of the map, whatever the key.
RouteTargetOldest(k) ==
    IF DOMAIN response_map # {}
    THEN {response_map[CHOOSE j \in DOMAIN response_map : \A i \in DOMAIN response_map : j <= i]}
    ELSE {}

\* The sender stored under k, if any.
RouteTarget(k) == IF k \in DOMAIN response_map THEN {response_map[k]} ELSE {}

\* The task of a line that carries in_reply_to: under the response_map lock
\* the entry is removed and the line sent to its receiver; the send fails when
\* the receiver is gone, and the line is logged.
Route(l) ==
    LET k == l.in_reply_to IN
    /\ Alive /\ bin \in NodeBins
    /\ l \in routing
    /\ routing' = routing \ {l}
    /\ response_map' = IF RouteTarget(k) # {} THEN Remove(response_map, k) ELSE response_map
    /\ tasks' = [i \in DOMAIN tasks |->
                   IF \E e \in RouteTarget(k) : e.task = i /\ Open(e)
                   THEN [tasks[i] EXCEPT !.call.chan = "full", !.call.got = l]
                   ELSE tasks[i]]
    /\ UNCHANGED <<run, next_msg_id, stdout, handler>>
    /\ UNCHANGED cvars

\* The task of a line that does not parse: serde_json::from_str(..).unwrap()
\* panics, and the task is over before any handler is called.
LinePanics(t) ==
    /\ Alive /\ bin \in NodeBins
    /\ tasks[t].kind = "line" /\ tasks[t].pc = "spawned" /\ ~Decodable(tasks[t].line)
    /\ tasks' = [tasks EXCEPT ![t].pc = "panicked"]
    /\ UNCHANGED <<run, next_msg_id, response_map, routing, stdout, handler>>
    /\ UNCHANGED cvars

\* The select! around handler.handle: once the token is cancelled, a handler
\* that has not started, or that is suspended in an rpc, is dropped and the
\* task ends with Ok(()).  Dropping the handler drops the receiver of its call.
HandlerCancelled(t) ==
    /\ Alive /\ bin \in NodeBins /\ cancelled
    /\ tasks[t].kind = "line"
    /\ \/ tasks[t].pc = "spawned" /\ Decodable(tasks[t].line)
       \/ tasks[t].call.st = "wait"
    /\ tasks' = [tasks EXCEPT ![t].pc = "cancelled",
                              ![t].call.st = IF @ = "wait" THEN "dropped" ELSE @,
                              ![t].call.chan = IF @ = "none" THEN @ ELSE "closed"]
    /\ UNCHANGED <<run, next_msg_id, response_map, routing, stdout, handler>>
    /\ UNCHANGED cvars

\* The handler returned Err(err): the error is printed as a reply to the
\* request, and CRASH and ABORT panic the task after that.
HandlerFailed(t, task, code) ==
    /\ Printed(error_reply(tasks[t].line, code))
    /\ tasks' = [tasks EXCEPT ![t] =
                   [task EXCEPT !.pc = IF code \in {CRASH, ABORT} THEN "panicked" ELSE "done",
                                !.err = code]]
    /\ UNCHANGED <<run, next_msg_id, response_map, routing, handler>>

\* The handler printed its reply and returned Ok(()).
HandlerReplied(t, task, type, val) ==
    /\ Printed(reply(tasks[t].line, type, val))
    /\ tasks' = [tasks EXCEPT ![t] = [task EXCEPT !.pc = "done", !.val = val]]
    /\ UNCHANGED <<run, next_msg_id, response_map, routing, handler>>

\* stdin is at its end: the loop over the lines is left, the token is
\* cancelled and the tracker closed.
Eof ==
    /\ runpc = "loop" /\ bin \in NodeBins
    /\ cancelled' = TRUE
    /\ runpc' = "wait"
    /\ UNCHANGED <<bin, nreq, next_msg_id, response_map, tasks, routing, stdout, handler>>
    /\ UNCHANGED cvars

\* tracker.wait(): every task the tracker spawned has ended; run returns.
Tracked(t) == tasks[t].kind = "line"
TrackerIdle == routing = {} /\ \A t \in DOMAIN tasks : Tracked(t) => Finished(t)

Return ==
    /\ runpc = "wait" /\ bin \in NodeBins
    /\ TrackerIdle
    /\ runpc' = "done"
    /\ UNCHANGED <<bin, cancelled, nreq, next_msg_id, response_map, tasks, routing, stdout, handler>>
    /\ UNCHANGED cvars

\* A request line of type `type` whose handler has not started.
Fresh(t, b, type) ==
    /\ Alive /\ bin = b
    /\ tasks[t].kind = "line" /\ tasks[t].pc = "spawned" /\ tasks[t].line.type = type

\* --------------------------------------------- SeqKvClient (seq_kv_client.rs)
SeqKvResponses == {"read_ok", "write_ok", "cas_ok"}

\* read: ReadOk is the value, key_does_not_exist is passed on, anything else
\* is Unsupported.
kv_read(r) ==
    IF r.kind = "ok" /\ r.type = "read_ok" THEN [ok |-> TRUE, val |-> r.val, code |-> 0]
    ELSE IF r.kind = "maelstrom" /\ r.val = KEY_DOES_NOT_EXIST
         THEN [ok |-> FALSE, val |-> 0, code |-> KEY_DOES_NOT_EXIST]
    ELSE [ok |-> FALSE, val |-> 0, code |-> None]

\* read_int: the value read, parsed as an i64.
read_int(r) == kv_read(r)

\* write: WriteOk is (), any other answer is an error.
kv_write(r) == r.kind = "ok" /\ r.type = "write_ok"

\* ------------------------------------------------- CounterHandler (counter.rs)
CounterResponses == {"add_ok", "read_ok"}
bucket == node_id(SelfId)

\* A missing value that counts 1.
unwrap_or_1(r) == IF r.ok THEN r.val ELSE 1

\* Result::unwrap_or(0)
unwrap_or_0(r) == IF r.ok THEN r.val ELSE 0

\* Add: read_int(bucket) is sent.
AddStart(t) ==
    /\ Fresh(t, "counter", "add")
    /\ RpcStart(t, [tasks[t] EXCEPT !.pc = "add_read"], SeqKv, "read", bucket, 0, FALSE)
    /\ UNCHANGED <<run, response_map, routing, stdout, handler>>
    /\ UNCHANGED cvars

\* Add: the read has answered; write(bucket, current_value + delta) is sent.
AddAfterRead(t) ==
    /\ Alive /\ tasks[t].pc = "add_read" /\ Ready(t)
    /\ LET current_value == unwrap_or_0(read_int(RpcResult(t, SeqKvResponses)))
           new_value == current_value + tasks[t].line.val
       IN RpcStart(t, [Returned(t) EXCEPT !.pc = "add_write", !.val = new_value],
                   SeqKv, "write", bucket, new_value, FALSE)
    /\ UNCHANGED <<run, response_map, routing, stdout, handler>>
    /\ UNCHANGED cvars

\* An Add that acknowledges whatever the write has answered.
AddAfterWriteAcks(t) ==
    /\ Alive /\ tasks[t].pc = "add_write" /\ Ready(t)
    /\ HandlerReplied(t, Returned(t), "add_ok", 0)
    /\ UNCHANGED cvars

\* Add: the write has answered; AddOk is the reply, or the error is returned.
AddAfterWrite(t) ==
    /\ Alive /\ tasks[t].pc = "add_write" /\ Ready(t)
    /\ IF kv_write(RpcResult(t, SeqKvResponses))
       THEN HandlerReplied(t, Returned(t), "add_ok", 0)
       ELSE HandlerFailed(t, Returned(t), glomer_to_maelstrom("unsupported"))
    /\ UNCHANGED cvars

\* Read: read_int(bucket) is sent.
ReadStart(t) ==
    /\ Fresh(t, "counter", "read")
    /\ RpcStart(t, [tasks[t] EXCEPT !.pc = "read_own"], SeqKv, "read", bucket, 0, FALSE)
    /\ UNCHANGED <<run, response_map, routing, stdout, handler>>
    /\ UNCHANGED cvars

\* The other nodes of node_ids, asked in turn when the request is a client's.
node_ids == <<0, 1>>
OtherNodes == SelectSeq(node_ids, LAMBDA n : node_id(n) # bucket)

\* A Read that replies with the sum it has before it asks the next node.
ReadNextRepliesFirst(t, task, value, todo) ==
    IF todo # <<>>
    THEN /\ RpcStart(t, [task EXCEPT !.pc = "read_peer", !.val = value, !.todo = Tail(todo)],
                     node_id(Head(todo)), "read", NoKey, 0, TRUE)
         /\ Printed(reply(tasks[t].line, "read_ok", value))
         /\ UNCHANGED <<run, response_map, routing, handler>>
    ELSE HandlerReplied(t, task, "read_ok", value)

\* Read: the next node of `todo` is asked with a timeout, or the sum is the reply.
ReadNext(t, task, value, todo) ==
    IF todo # <<>>
    THEN /\ RpcStart(t, [task EXCEPT !.pc = "read_peer", !.val = value, !.todo = Tail(todo)],
                     node_id(Head(todo)), "read", NoKey, 0, TRUE)
         /\ UNCHANGED <<run, response_map, routing, stdout, handler>>
    ELSE HandlerReplied(t, task, "read_ok", value)

\* A Read that asks the other nodes whoever sent the request.
ReadAfterOwnAsksAll(t) ==
    /\ Alive /\ tasks[t].pc = "read_own" /\ Ready(t)
    /\ LET r == read_int(RpcResult(t, SeqKvResponses)) IN
       IF r.ok \/ r.code = KEY_DOES_NOT_EXIST
       THEN ReadNext(t, Returned(t), unwrap_or_0(r), OtherNodes)
       ELSE HandlerFailed(t, Returned(t), glomer_to_maelstrom("unsupported"))
    /\ UNCHANGED cvars

\* Read: the own value has answered: a missing key counts 0, another error is
\* returned.
ReadAfterOwn(t) ==
    /\ Alive /\ tasks[t].pc = "read_own" /\ Ready(t)
    /\ LET r == read_int(RpcResult(t, SeqKvResponses)) IN
       IF r.ok \/ r.code = KEY_DOES_NOT_EXIST
       THEN ReadNext(t, Returned(t), unwrap_or_0(r),
                     IF tasks[t].line.src[1] = "c" THEN OtherNodes ELSE <<>>)
       ELSE HandlerFailed(t, Returned(t), glomer_to_maelstrom("unsupported"))
    /\ UNCHANGED cvars

\* Read: a node has answered or timed out: ReadOk adds its value, a timeout
\* adds 0, another response or error is returned.
ReadAfterPeer(t) ==
    /\ Alive /\ tasks[t].pc = "read_peer" /\ Ready(t)
    /\ LET r == RpcResult(t, CounterResponses) IN
       IF r.kind = "ok" /\ r.type = "read_ok"
       THEN ReadNext(t, Returned(t), tasks[t].val + r.val, tasks[t].todo)
       ELSE IF r.kind = "ok" THEN HandlerFailed(t, Returned(t), NOT_SUPPORTED)
       ELSE IF r.kind = "timeout" THEN ReadNext(t, Returned(t), tasks[t].val, tasks[t].todo)
       ELSE HandlerFailed(t, Returned(t), glomer_to_maelstrom(r.kind))
    /\ UNCHANGED cvars

\* ------------------------------------------- UniqueIdHandler (unique_ids.rs)
\* u32::to_le_bytes
to_le_bytes(n) ==
    <<n % 256, (n \div 256) % 256, (n \div 65536) % 256, (n \div 16777216) % 256>>

\* Uuid::now_v6: the timestamp the clock shows, the clock sequence, which is
\* the 14 low bits of a counter every call advances, and the six bytes of the
\* node.
ClockSeqs == 16384
now_v6(node, ts, count) == [time |-> ts, clock_seq |-> count % ClockSeqs, node |-> node]

\* An id made of the first byte of the node id alone.
make_uuid_of_one_byte(id, ts, count) ==
    now_v6(<<to_le_bytes(id)[1], 0, 0, 0, 0, 0>>, ts, count)

\* make_uuid: the node of the id is the four bytes of the node id and two
\* zero bytes.
make_uuid(id, ts, count) ==
    now_v6(to_le_bytes(id) \o <<0, 0>>, ts, count)

\* What the clock may show at a call (it is not modelled to advance), and the
\* counts the counter of clock sequences may start from.
Timestamps == {0, 1}
FirstCounts == {0, ClockSeqs - 1}
Counts == 65536

\* Generate: the id is made and GenerateOk is the reply.
Generate(t) ==
    /\ Fresh(t, "unique_ids", "generate")
    /\ \E ts \in Timestamps :
          Printed([reply(tasks[t].line, "generate_ok", 0)
                      EXCEPT !.id = make_uuid(SelfId, ts, uuid_count)])
    /\ uuid_count' = (uuid_count + 1) % Counts
    /\ tasks' = [tasks EXCEPT ![t].pc = "done"]
    /\ UNCHANGED <<run, next_msg_id, response_map, routing, kv, held, seen, neighbors>>
    /\ UNCHANGED cvars

\* ------------------------------------------- BroadcastHandler (broadcast.rs)
\* neighbors before Topology has set it.
Unset == [set |-> FALSE, ids |-> <<>>]
BroadcastResponses == {"broadcast_ok", "read_ok", "topology_ok", "gossip_ok"}

\* gossip to every neighbor, the one the message came from too.
GossipTargetsAll(src) == neighbors.ids

\* gossip: the neighbors a message is sent to, all but the one it came from.
GossipTargets(src) == SelectSeq(neighbors.ids, LAMBDA id : id # src)

\* gossip: one task is spawned for each of them, outside the tracker.
GossipTasks(message, src) ==
    [i \in 1..Len(GossipTargets(src)) |->
        [NewTask("gossip", NoLine) EXCEPT !.val = message, !.todo = <<GossipTargets(src)[i]>>]]

\* gossip has spawned its tasks and the handler replies.
GossipedAndReplied(t, src, type) ==
    /\ Printed(reply(tasks[t].line, type, 0))
    /\ tasks' = [tasks EXCEPT ![t].pc = "done"] \o GossipTasks(tasks[t].line.val, src)
    /\ UNCHANGED <<run, next_msg_id, response_map, routing, handler>>

\* Broadcast: the message is stored in seen_messages.
BroadcastInsert(t) ==
    /\ Fresh(t, "broadcast", "broadcast")
    /\ seen' = seen \cup {tasks[t].line.val}
    /\ tasks' = [tasks EXCEPT ![t].pc = "bc_gossip"]
    /\ UNCHANGED <<run, next_msg_id, response_map, routing, stdout, kv, held, uuid_count, neighbors>>
    /\ UNCHANGED cvars

\* A Broadcast that gossips and acknowledges whether or not a topology is set.
BroadcastGossipUnchecked(t) ==
    /\ Alive /\ tasks[t].pc = "bc_gossip"
    /\ GossipedAndReplied(t, None, "broadcast_ok")
    /\ UNCHANGED cvars

\* Broadcast: gossip(message, None), which fails without a topology, and then
\* the BroadcastOk reply.
BroadcastGossip(t) ==
    /\ Alive /\ tasks[t].pc = "bc_gossip"
    /\ IF ~neighbors.set
       THEN HandlerFailed(t, tasks[t], PRECONDITION_FAILED)
       ELSE GossipedAndReplied(t, None, "broadcast_ok")
    /\ UNCHANGED cvars

\* Gossip: the message is stored; a message that was there already is
\* acknowledged at once.
GossipInsert(t) ==
    /\ Fresh(t, "broadcast", "gossip")
    /\ LET inserted == tasks[t].line.val \notin seen IN
       IF inserted
       THEN /\ seen' = seen \cup {tasks[t].line.val}
            /\ tasks' = [tasks EXCEPT ![t].pc = "g_gossip"]
            /\ UNCHANGED <<run, next_msg_id, response_map, routing, stdout, kv, held, uuid_count, neighbors>>
       ELSE HandlerReplied(t, tasks[t], "gossip_ok", 0)
    /\ UNCHANGED cvars

\* A Gossip that propagates to the neighbors there are and acknowledges,
\* whether or not a topology is set.
GossipForwardUnchecked(t) ==
    /\ Alive /\ tasks[t].pc = "g_gossip"
    /\ GossipedAndReplied(t, parse_node_id(tasks[t].line.src), "gossip_ok")
    /\ UNCHANGED cvars

\* Gossip of a new message: the sender's id is parsed, gossip(message, Some(src))
\* spawns the tasks, and GossipOk is the reply.
GossipForward(t) ==
    /\ Alive /\ tasks[t].pc = "g_gossip"
    /\ LET src == parse_node_id(tasks[t].line.src) IN
       IF src = ParseError THEN HandlerFailed(t, tasks[t], glomer_to_maelstrom("parse"))
       ELSE IF ~neighbors.set THEN HandlerFailed(t, tasks[t], PRECONDITION_FAILED)
       ELSE GossipedAndReplied(t, src, "gossip_ok")
    /\ UNCHANGED cvars

\* Read: the reply is the content of seen_messages.
BroadcastRead(t) ==
    /\ Fresh(t, "broadcast", "read")
    /\ Printed([reply(tasks[t].line, "read_ok", 0) EXCEPT !.messages = seen])
    /\ tasks' = [tasks EXCEPT ![t].pc = "done"]
    /\ UNCHANGED <<run, next_msg_id, response_map, routing, handler>>
    /\ UNCHANGED cvars

\* A Topology that sets neighbors whether or not they are set.
TopologyOverwrites(t) ==
    /\ Fresh(t, "broadcast", "topology")
    /\ LET entry == {p \in tasks[t].line.topo : p[1] = node_id(SelfId)}
           names == (CHOOSE p \in entry : TRUE)[2]
           ids == [i \in 1..Len(names) |-> parse_node_id(names[i])]
       IN  IF entry = {} THEN HandlerFailed(t, tasks[t], NODE_NOT_FOUND)
           ELSE IF \E i \in 1..Len(names) : ids[i] = ParseError
                THEN HandlerFailed(t, tasks[t], glomer_to_maelstrom("parse"))
           ELSE /\ neighbors' = [set |-> TRUE, ids |-> ids]
                /\ Printed(reply(tasks[t].line, "topology_ok", 0))
                /\ tasks' = [tasks EXCEPT ![t].pc = "done"]
                /\ UNCHANGED <<run, next_msg_id, response_map, routing, kv, held, uuid_count, seen>>
    /\ UNCHANGED cvars

\* Topology: the node's own entry is looked up and parsed, and set once.
Topology(t) ==
    /\ Fresh(t, "broadcast", "topology")
    /\ LET entry == {p \in tasks[t].line.topo : p[1] = node_id(SelfId)}
           names == (CHOOSE p \in entry : TRUE)[2]
           ids == [i \in 1..Len(names) |-> parse_node_id(names[i])]
       IN  IF entry = {} THEN HandlerFailed(t, tasks[t], NODE_NOT_FOUND)
           ELSE IF \E i \in 1..Len(names) : ids[i] = ParseError
                THEN HandlerFailed(t, tasks[t], glomer_to_maelstrom("parse"))
           ELSE IF neighbors.set THEN HandlerFailed(t, tasks[t], PRECONDITION_FAILED)
           ELSE /\ neighbors' = [set |-> TRUE, ids |-> ids]
                /\ Printed(reply(tasks[t].line, "topology_ok", 0))
                /\ tasks' = [tasks EXCEPT ![t].pc = "done"]
                /\ UNCHANGED <<run, next_msg_id, response_map, routing, kv, held, uuid_count, seen>>
    /\ UNCHANGED cvars

\* A gossip task sends its message to its neighbor with a timeout.
GossipSend(t) ==
    /\ Alive /\ tasks[t].kind = "gossip" /\ tasks[t].pc = "spawned"
    /\ RpcStart(t, [tasks[t] EXCEPT !.pc = "g_wait"], node_id(tasks[t].todo[1]),
                "gossip", NoKey, tasks[t].val, TRUE)
    /\ UNCHANGED <<run, response_map, routing, stdout, handler>>
    /\ UNCHANGED cvars

\* A gossip task that a timeout ends like any other error.
GossipAfterRpcGivesUp(t) ==
    /\ Alive /\ tasks[t].pc = "g_wait" /\ Ready(t)
    /\ LET r == RpcResult(t, BroadcastResponses) IN
       /\ tasks' = [tasks EXCEPT ![t] =
                      [Returned(t) EXCEPT !.pc = IF r.kind = "ok" /\ r.type = "gossip_ok"
                                                 THEN "done" ELSE "failed"]]
       /\ UNCHANGED <<run, next_msg_id, response_map, routing, stdout, handler>>
    /\ UNCHANGED cvars

\* A gossip task has its result: GossipOk ends it, a timeout sends the message
\* again with a longer timeout, anything else ends it with an error.
GossipAfterRpc(t) ==
    /\ Alive /\ tasks[t].pc = "g_wait" /\ Ready(t)
    /\ LET r == RpcResult(t, BroadcastResponses) IN
       IF r.kind = "timeout"
       THEN /\ RpcStart(t, [Returned(t) EXCEPT !.retries = @ + 1], node_id(tasks[t].todo[1]),
                        "gossip", NoKey, tasks[t].val, TRUE)
            /\ UNCHANGED <<run, response_map, routing, stdout, handler>>
       ELSE /\ tasks' = [tasks EXCEPT ![t] =
                           [Returned(t) EXCEPT !.pc = IF r.kind = "ok" /\ r.type = "gossip_ok"
                                                      THEN "done" ELSE "failed"]]
            /\ UNCHANGED <<run, next_msg_id, response_map, routing, stdout, handler>>
    /\ UNCHANGED cvars

\* ------------------------------------------- the earlier runtime (lib.rs)
\* send_impl, first step: the msg_id is taken from the counter; every message
\* of this runtime, replies included, has one.
SendImplAlloc(t, in_reply_to, dest, type, val) ==
    /\ next_msg_id' = fetch_add(next_msg_id)
    /\ tasks' = [tasks EXCEPT ![t].pc = "printing",
                              ![t].call.req = Msg(Me, dest, next_msg_id, in_reply_to, type, val),
                              ![t].err = IF type = "error" THEN val ELSE @]

\* send_impl, next step: the message is printed; the task ends (a
\* not_supported error does not panic it).
SendImplPrint(t) ==
    /\ Alive /\ bin = "echo" /\ tasks[t].pc = "printing"
    /\ Printed(tasks[t].call.req)
    /\ tasks' = [tasks EXCEPT ![t].pc = "done"]
    /\ UNCHANGED <<run, next_msg_id, response_map, routing, handler>>
    /\ UNCHANGED cvars

\* run, before its loop: the first line is read and parsed as the init
\* message, the node is made and init_ok sent as a reply, with the first
\* msg_id; a line that is no init message is an error run returns with.
EchoInit(line) ==
    /\ runpc = "init" /\ bin = "echo"
    /\ IF line.type = "init"
       THEN /\ next_msg_id' = fetch_add(next_msg_id)
            /\ Printed(Msg(Me, line.src, next_msg_id, line.msg_id, "init_ok", 0))
            /\ runpc' = "loop"
       ELSE /\ runpc' = "failed"
            /\ UNCHANGED <<next_msg_id, stdout>>
    /\ UNCHANGED <<bin, cancelled, nreq, response_map, tasks, routing, handler>>
    /\ UNCHANGED cvars

\* EchoHandler::handle, and the error path of run: Echo is answered EchoOk
\* with the same text, EchoOk is answered a not_supported error.
EchoHandle(t) ==
    /\ Alive /\ bin = "echo" /\ tasks[t].pc = "spawned"
    /\ LET m == tasks[t].line IN
       IF m.type = "echo"
       THEN SendImplAlloc(t, m.msg_id, m.src, "echo_ok", m.val)
       ELSE SendImplAlloc(t, m.msg_id, m.src, "error", NOT_SUPPORTED)
    /\ UNCHANGED <<run, response_map, routing, stdout, handler>>
    /\ UNCHANGED cvars

\* The select! around handler.handle: the token is cancelled before the
\* handler started.
EchoCancelled(t) ==
    /\ Alive /\ bin = "echo" /\ cancelled
    /\ tasks[t].pc = "spawned"
    /\ tasks' = [tasks EXCEPT ![t].pc = "cancelled"]
    /\ UNCHANGED <<run, next_msg_id, response_map, routing, stdout, handler>>
    /\ UNCHANGED cvars

\* The task of a line that carries in_reply_to: the entry is removed if there
\* is one.  No binary calls Node::send, so the map of this runtime is empty.
EchoRoute(l) ==
    /\ Alive /\ bin = "echo"
    /\ l \in routing
    /\ routing' = routing \ {l}
    /\ response_map' = IF l.in_reply_to \in DOMAIN response_map
                       THEN Remove(response_map, l.in_reply_to) ELSE response_map
    /\ UNCHANGED <<run, next_msg_id, tasks, stdout, handler>>
    /\ UNCHANGED cvars

\* The requests an echo node is sent, and a stray reply line.
Texts == {5}
EchoRequests ==
    {Msg(Client, Me, 0, None, "echo", v) : v \in Texts}
    \cup {Msg(Client, Me, 0, None, "echo_ok", v) : v \in Texts}
    \cup {Msg(node_id(1), Me, 0, 0, "echo_ok", v) : v \in Texts}

\* stdin yields a line while the token is not cancelled: the line is parsed
\* and its task is spawned.  A line that does not parse panics run, at
\* serde_json::from_str(..).unwrap(), and the process with it.
EchoReadLine(req) ==
    /\ runpc = "loop" /\ bin = "echo" /\ ~cancelled
    /\ nreq < MaxRequests
    /\ nreq' = nreq + 1
    /\ LET line == [req EXCEPT !.msg_id = nreq + 1] IN
       IF ~Decodable(line)
       THEN runpc' = "panicked" /\ UNCHANGED <<tasks, routing>>
       ELSE IF IsReply(line)
       THEN routing' = routing \cup {line} /\ tasks' = tasks /\ runpc' = runpc
       ELSE tasks' = Append(tasks, NewTask("line", line)) /\ routing' = routing /\ runpc' = runpc
    /\ UNCHANGED <<bin, cancelled, next_msg_id, response_map, stdout, handler>>
    /\ UNCHANGED cvars

\* Ctrl-C: the watcher task cancels the token and ends.
CtrlC ==
    /\ Alive /\ bin = "echo" /\ ~cancelled
    /\ cancelled' = TRUE
    /\ UNCHANGED <<bin, runpc, nreq, next_msg_id, response_map, tasks, routing, stdout, handler>>
    /\ UNCHANGED cvars

\* stdin yields a line after the token was cancelled: the loop breaks.
EchoBreak ==
    /\ runpc = "loop" /\ bin = "echo" /\ cancelled
    /\ runpc' = "wait"
    /\ UNCHANGED <<bin, cancelled, nreq, next_msg_id, response_map, tasks, routing, stdout, handler>>
    /\ UNCHANGED cvars

\* stdin is at its end: the loop is left and the tracker closed.  The token
\* is not cancelled here.
EchoEof ==
    /\ runpc = "loop" /\ bin = "echo"
    /\ runpc' = "wait"
    /\ UNCHANGED <<bin, cancelled, nreq, next_msg_id, response_map, tasks, routing, stdout, handler>>
    /\ UNCHANGED cvars

\* tracker.wait(): the tracked tasks have ended, the Ctrl-C watcher among
\* them, which ends when the token is cancelled.
EchoReturn ==
    /\ runpc = "wait" /\ bin = "echo"
    /\ TrackerIdle /\ cancelled
    /\ runpc' = "done"
    /\ UNCHANGED <<bin, cancelled, nreq, next_msg_id, response_map, tasks, routing, stdout, handler>>
    /\ UNCHANGED cvars

\* ------------------------------------------------------------ the harness
\* The requests a counter node is sent: by a client, and the read of a peer
\* that answers a read of one of its clients.
Deltas == {1}
CounterRequests ==
    {Msg(Client, Me, 0, None, "add", d) : d \in Deltas}
    \cup {Msg(Client, Me, 0, None, "read", 0)}
    \cup {Msg(node_id(1), Me, 0, None, "read", 0)}

\* The requests a unique_ids node is sent.
UniqueIdRequests == {Msg(Client, Me, 0, None, "generate", 0)}

\* The requests a broadcast node is sent: by a client, and gossip by a peer
\* (and by a sender that is no node).
Values == {7}
Topologies ==
    {{<<Me, <<node_id(1), node_id(2)>>>>, <<node_id(1), <<Me>>>>, <<node_id(2), <<Me>>>>},
     {<<node_id(1), <<node_id(2)>>>>, <<node_id(2), <<node_id(1)>>>>},
     {<<Me, <<Client>>>>}}
BroadcastRequests ==
    {Msg(Client, Me, 0, None, "broadcast", v) : v \in Values}
    \cup {Msg(node_id(1), Me, 0, None, "gossip", v) : v \in Values}
    \cup {Msg(Client, Me, 0, None, "gossip", v) : v \in Values}
    \cup {Msg(Client, Me, 0, None, "read", 0)}
    \cup {[Msg(Client, Me, 0, None, "topology", 0) EXCEPT !.topo = T] : T \in Topologies}

Requests ==
    {Undecodable, UnknownType} \cup
    (IF bin = "counter" THEN CounterRequests
     ELSE IF bin = "broadcast" THEN BroadcastRequests
     ELSE IF bin = "unique_ids" THEN UniqueIdRequests ELSE EchoRequests)

\* stdin yields a request line; the sender numbers its requests.
ReadRequest(req) ==
    /\ runpc = "loop" /\ bin \in NodeBins
    /\ nreq < MaxRequests
    /\ req \in Requests
    /\ nreq' = nreq + 1
    /\ tasks' = Append(tasks, NewTask("line", [req EXCEPT !.msg_id = nreq + 1]))
    /\ UNCHANGED <<bin, runpc, cancelled, next_msg_id, response_map, routing, stdout, handler>>
    /\ UNCHANGED cvars

\* The harness answers a request of the node, and the answer is the next line
\* the run loop reads: the line's task is spawned.  The harness is over when
\* it has closed the node's stdin.
Answered(m, l) ==
    /\ runpc = "loop"
    /\ net' = net \ {m}
    /\ routing' = routing \cup {l}
    /\ UNCHANGED <<run, next_msg_id, response_map, tasks, out, last, uuid_count, seen, neighbors>>

\* The counter: the sum of the values seq-kv stores, one bucket per node.
Stored(k, key) == IF key \in DOMAIN k THEN k[key] ELSE 0
Total(k) == Stored(k, node_id(0)) + Stored(k, node_id(1))

\* Maelstrom's seq-kv serves one request of the node: it answers a read with
\* the value or key-does-not-exist and stores and acknowledges a write, or it
\* refuses the request with another error and stores nothing.
SeqKvServe(m) ==
    /\ m \in net /\ m.dest = SeqKv
    /\ \/ /\ m.type = "read"
          /\ kv' = kv
          /\ Answered(m, IF m.key \in DOMAIN kv
                         THEN Msg(SeqKv, Me, None, m.msg_id, "read_ok", kv[m.key])
                         ELSE Msg(SeqKv, Me, None, m.msg_id, "error", KEY_DOES_NOT_EXIST))
       \/ /\ m.type = "write"
          /\ kv' = Insert(kv, m.key, m.val)
          /\ Answered(m, Msg(SeqKv, Me, None, m.msg_id, "write_ok", 0))
       \/ /\ kv' = kv
          /\ Answered(m, Msg(SeqKv, Me, None, m.msg_id, "error", TEMPORARILY_UNAVAILABLE))
    /\ held' = held \cup {kv'}
    /\ UNCHANGED cvars

\* What a peer node may answer to a request of this node: a counter node
\* answers a read of a node with the value of its own bucket (0 while it has
\* none), or with the error of a handler that failed.
PeerAnswers(m) ==
    IF m.type = "read" THEN {<<"read_ok", Stored(kv, m.dest)>>, <<"error", CRASH>>}
    ELSE {<<"gossip_ok", 0>>, <<"error", PRECONDITION_FAILED>>}

\* A peer node serves one request of the node.
PeerServe(m) ==
    /\ m \in net /\ m.dest[1] = "n"
    /\ kv' = kv /\ held' = held
    /\ \E a \in PeerAnswers(m) : Answered(m, Msg(m.dest, Me, None, m.msg_id, a[1], a[2]))
    /\ UNCHANGED cvars

\* A peer counter node has handled an add of one of its clients: seq-kv stores
\* the new value of the peer's bucket.
PeerDeltas == {2}
PeerAdd(d) ==
    /\ runpc = "loop" /\ bin = "counter"
    /\ node_id(1) \notin DOMAIN kv
    /\ kv' = Insert(kv, node_id(1), Stored(kv, node_id(1)) + d)
    /\ held' = held \cup {kv'}
    /\ UNCHANGED <<run, next_msg_id, response_map, tasks, routing, stdout,
                   uuid_count, seen, neighbors>>
    /\ UNCHANGED cvars

\* ------------------------------------- a cluster of broadcast nodes
\* Several nodes run broadcast.rs, one action per handler; the runtime between
\* them is what send_rpc gives a gossip task: a request that is answered, or
\* times out and is sent again under a new msg_id.
CNodes == {0, 1, 2}

\* The topology message Maelstrom sends every node: a line n0 - n1 - n2.
ClusterTopology ==
    {<<node_id(0), <<node_id(1)>>>>,
     <<node_id(1), <<node_id(0), node_id(2)>>>>,
     <<node_id(2), <<node_id(1)>>>>}

\* Attempts of one gossip task: the first and its retries.  Of the messages of
\* a task the network delivers those of the last attempt at the latest.
MaxAttempts == MaxRetries + 1

\* Topology: the neighbors a node takes from its own entry of the message.
CParsedNeighbors(n) ==
    LET names == (CHOOSE p \in ClusterTopology : p[1] = node_id(n))[2]
    IN  [i \in 1..Len(names) |-> parse_node_id(names[i])]

\* gossip: no neighbor at all is sent the message.
CGossipTargetsNone(n, src) == {}

\* gossip: the neighbors of n a message is sent to, all but the one it came from.
CGossipTargets(n, src) ==
    {c_neighbors[n].ids[i] : i \in 1..Len(c_neighbors[n].ids)} \ {src}

\* A gossip request that carries another value than its task's.
CRequestOfAnother(from, to, message, by, a) ==
    [type |-> "gossip", src |-> from, dest |-> to, message |-> message + 1, by |-> by,
     attempt |-> a, code |-> 0]

\* A gossip request of attempt a, and the reply to it.
CRequest(from, to, message, by, a) ==
    [type |-> "gossip", src |-> from, dest |-> to, message |-> message, by |-> by,
     attempt |-> a, code |-> 0]
CReply(q, type, code) ==
    [type |-> type, src |-> q.dest, dest |-> q.src, message |-> q.message, by |-> q.by,
     attempt |-> q.attempt, code |-> code]

\* gossip: the tasks node n spawns for a message, each with its first request
\* sent.  `by` tells the tasks of a broadcast from those of a gossip.
CSpawned(n, message, src, by) ==
    {[from |-> n, to |-> to, message |-> message, by |-> by, attempt |-> 1, st |-> "wait"] :
        to \in CGossipTargets(n, src)}
CFirstRequests(n, message, src, by) ==
    {CRequest(n, to, message, by, 1) : to \in CGossipTargets(n, src)}

\* A reply a node prints to a client, or an error it prints to anyone.
CPrinted(n, to, type, code, message) ==
    [src |-> n, dest |-> to, type |-> type, code |-> code, message |-> message]

\* Topology at node n, sent once by Maelstrom.
CTopology(n) ==
    /\ ~c_neighbors[n].set
    /\ c_neighbors' = [c_neighbors EXCEPT ![n] = [set |-> TRUE, ids |-> CParsedNeighbors(n)]]
    /\ c_out' = c_out \cup {CPrinted(n, Client, "topology_ok", 0, 0)}
    /\ UNCHANGED <<c_seen, c_tasks, c_wire, c_sent, c_lost>>
    /\ UNCHANGED nvars

\* A Broadcast that gossips and acknowledges a value it does not store.
CBroadcastForgets(n) ==
    LET message == c_sent + 1 IN
    /\ c_sent < MaxBroadcasts
    /\ c_sent' = message
    /\ c_seen' = c_seen
    /\ IF ~c_neighbors[n].set
       THEN /\ c_out' = c_out \cup {CPrinted(n, Client, "error", PRECONDITION_FAILED, message)}
            /\ UNCHANGED <<c_tasks, c_wire>>
       ELSE /\ c_tasks' = c_tasks \cup CSpawned(n, message, None, "broadcast")
            /\ c_wire' = c_wire \cup CFirstRequests(n, message, None, "broadcast")
            /\ c_out' = c_out \cup {CPrinted(n, Client, "broadcast_ok", 0, message)}
    /\ UNCHANGED <<c_neighbors, c_lost>>
    /\ UNCHANGED nvars

\* Broadcast of a new value at node n: stored, gossiped to every neighbor and
\* acknowledged, or failed for want of a topology.
CBroadcast(n) ==
    LET message == c_sent + 1 IN
    /\ c_sent < MaxBroadcasts
    /\ c_sent' = message
    /\ c_seen' = [c_seen EXCEPT ![n] = @ \cup {message}]
    /\ IF ~c_neighbors[n].set
       THEN /\ c_out' = c_out \cup {CPrinted(n, Client, "error", PRECONDITION_FAILED, message)}
            /\ UNCHANGED <<c_tasks, c_wire>>
       ELSE /\ c_tasks' = c_tasks \cup CSpawned(n, message, None, "broadcast")
            /\ c_wire' = c_wire \cup CFirstRequests(n, message, None, "broadcast")
            /\ c_out' = c_out \cup {CPrinted(n, Client, "broadcast_ok", 0, message)}
    /\ UNCHANGED <<c_neighbors, c_lost>>
    /\ UNCHANGED nvars

\* The read_ok replies printed so far.
CReadOks == {r \in c_out : r.type = "read_ok"}

\* A Read that takes the messages out of seen_messages.
CReadDrains(n) ==
    /\ Cardinality(CReadOks) < MaxReads
    /\ c_out' = c_out \cup {[src |-> n, dest |-> Client, type |-> "read_ok", code |-> 0,
                              messages |-> c_seen[n], seq |-> Cardinality(CReadOks) + 1]}
    /\ c_seen' = [c_seen EXCEPT ![n] = {}]
    /\ UNCHANGED <<c_neighbors, c_tasks, c_wire, c_sent, c_lost>>
    /\ UNCHANGED nvars

\* Read at node n: the reply is the content of seen_messages; `seq` is the
\* place of the reply among the read_ok replies printed.
CRead(n) ==
    /\ Cardinality(CReadOks) < MaxReads
    /\ c_out' = c_out \cup {[src |-> n, dest |-> Client, type |-> "read_ok", code |-> 0,
                              messages |-> c_seen[n], seq |-> Cardinality(CReadOks) + 1]}
    /\ UNCHANGED <<c_seen, c_neighbors, c_tasks, c_wire, c_sent, c_lost>>
    /\ UNCHANGED nvars

\* A gossip request that is gossiped on whether or not its message is new.
CGossipAgain(q) ==
    LET n == q.dest
        inserted == q.message \notin c_seen[n]
    IN
    /\ q \in c_wire /\ q.type = "gossip"
    /\ c_seen' = [c_seen EXCEPT ![n] = @ \cup {q.message}]
    /\ IF inserted /\ ~c_neighbors[n].set
       THEN /\ c_wire' = (c_wire \ {q}) \cup {CReply(q, "error", PRECONDITION_FAILED)}
            /\ c_out' = c_out \cup
                  {CPrinted(n, node_id(q.src), "error", PRECONDITION_FAILED, q.message)}
            /\ UNCHANGED c_tasks
       ELSE /\ c_tasks' = c_tasks \cup CSpawned(n, q.message, q.src, "gossip")
            /\ c_wire' = ((c_wire \ {q}) \cup CFirstRequests(n, q.message, q.src, "gossip"))
                            \cup {CReply(q, "gossip_ok", 0)}
            /\ UNCHANGED c_out
    /\ UNCHANGED <<c_neighbors, c_sent, c_lost>>
    /\ UNCHANGED nvars

\* Gossip request q at its destination: a new message is stored and gossiped
\* on, but for the sender, or fails for want of a topology; a known one is
\* acknowledged at once.
CGossip(q) ==
    LET n == q.dest
        inserted == q.message \notin c_seen[n]
    IN
    /\ q \in c_wire /\ q.type = "gossip"
    /\ c_seen' = [c_seen EXCEPT ![n] = @ \cup {q.message}]
    /\ IF inserted /\ ~c_neighbors[n].set
       THEN /\ c_wire' = (c_wire \ {q}) \cup {CReply(q, "error", PRECONDITION_FAILED)}
            /\ c_out' = c_out \cup
                  {CPrinted(n, node_id(q.src), "error", PRECONDITION_FAILED, q.message)}
            /\ UNCHANGED c_tasks
       ELSE IF inserted
       THEN /\ c_tasks' = c_tasks \cup CSpawned(n, q.message, q.src, "gossip")
            /\ c_wire' = ((c_wire \ {q}) \cup CFirstRequests(n, q.message, q.src, "gossip"))
                            \cup {CReply(q, "gossip_ok", 0)}
            /\ UNCHANGED c_out
       ELSE /\ c_wire' = (c_wire \ {q}) \cup {CReply(q, "gossip_ok", 0)}
            /\ UNCHANGED <<c_tasks, c_out>>
    /\ UNCHANGED <<c_neighbors, c_sent, c_lost>>
    /\ UNCHANGED nvars

\* The task a reply is for, if it is still waiting for that attempt.
CWaitingFor(r) ==
    {t \in c_tasks : /\ t.from = r.dest /\ t.to = r.src /\ t.message = r.message
                     /\ t.by = r.by /\ t.attempt = r.attempt /\ t.st = "wait"}

\* Reply r at its destination: GossipOk ends the task, an error ends it too,
\* and a reply to an earlier attempt is dropped.
CGossipReply(r) ==
    /\ r \in c_wire /\ r.type # "gossip"
    /\ c_wire' = c_wire \ {r}
    /\ c_tasks' = (c_tasks \ CWaitingFor(r)) \cup
                    {[t EXCEPT !.st = IF r.type = "gossip_ok" THEN "done" ELSE "failed"] :
                        t \in CWaitingFor(r)}
    /\ UNCHANGED <<c_seen, c_neighbors, c_out, c_sent, c_lost>>
    /\ UNCHANGED nvars

\* The rpc of task t times out: the message is sent again as a new attempt.
CGossipTimeout(t) ==
    /\ t \in c_tasks /\ t.st = "wait"
    /\ t.attempt < MaxAttempts
    /\ c_tasks' = (c_tasks \ {t}) \cup {[t EXCEPT !.attempt = @ + 1]}
    /\ c_wire' = c_wire \cup {CRequest(t.from, t.to, t.message, t.by, t.attempt + 1)}
    /\ UNCHANGED <<c_seen, c_neighbors, c_out, c_sent, c_lost>>
    /\ UNCHANGED nvars

\* The network loses a message, but none of a task's last attempt.
CLose(x) ==
    /\ x \in c_wire
    /\ c_lost < MaxLoss /\ x.attempt < MaxAttempts
    /\ c_wire' = c_wire \ {x}
    /\ c_lost' = c_lost + 1
    /\ UNCHANGED <<c_seen, c_neighbors, c_tasks, c_out, c_sent>>
    /\ UNCHANGED nvars

\* The cluster before any message.
ClusterStart ==
    /\ c_seen = [n \in CNodes |-> {}]
    /\ c_neighbors = [n \in CNodes |-> Unset]
    /\ c_tasks = {}
    /\ c_wire = {}
    /\ c_out = {}
    /\ c_sent = 0
    /\ c_lost = 0

\* ------------------------------------------------------------ specification
Bins == {"counter", "broadcast", "unique_ids", "echo"}

\* The process is started: nothing is read and nothing printed.
Init ==
    /\ bin \in Bins
    /\ runpc = "init"
    /\ cancelled = FALSE
    /\ nreq = 0
    /\ next_msg_id = 0
    /\ response_map = <<>>
    /\ tasks = <<>>
    /\ routing = {}
    /\ out = {}
    /\ last = NoLine
    /\ net = {}
    /\ kv = <<>>
    /\ held = {<<>>}
    /\ uuid_count \in (IF bin = "unique_ids" THEN FirstCounts ELSE {0})
    /\ seen = {}
    /\ neighbors = Unset
    /\ ClusterStart

Next ==
    \/ \E line \in FirstLines : NodeInit(line)
    \/ \E line \in FirstLines : EchoInit(line)
    \/ \E req \in Requests : ReadRequest(req)
    \/ Eof
    \/ Return
    \/ \E m \in net : SeqKvServe(m)
    \/ \E m \in net : PeerServe(m)
    \/ \E d \in PeerDeltas : PeerAdd(d)
    \/ \E l \in routing : Route(l)
    \/ \E t \in DOMAIN tasks : LinePanics(t)
    \/ \E t \in DOMAIN tasks : HandlerCancelled(t)
    \/ \E t \in DOMAIN tasks : RpcEmit(t)
    \/ \E t \in DOMAIN tasks : RpcInsert(t)
    \/ \E t \in DOMAIN tasks : RpcElapsed(t)
    \/ \E t \in DOMAIN tasks : RpcTimeoutRemove(t)
    \/ \E t \in DOMAIN tasks : RpcAbort(t)
    \/ \E t \in DOMAIN tasks : AddStart(t)
    \/ \E t \in DOMAIN tasks : AddAfterRead(t)
    \/ \E t \in DOMAIN tasks : AddAfterWrite(t)
    \/ \E t \in DOMAIN tasks : ReadStart(t)
    \/ \E t \in DOMAIN tasks : ReadAfterOwn(t)
    \/ \E t \in DOMAIN tasks : ReadAfterPeer(t)
    \/ \E t \in DOMAIN tasks : Generate(t)
    \/ \E t \in DOMAIN tasks : BroadcastInsert(t)
    \/ \E t \in DOMAIN tasks : BroadcastGossip(t)
    \/ \E t \in DOMAIN tasks : GossipInsert(t)
    \/ \E t \in DOMAIN tasks : GossipForward(t)
    \/ \E t \in DOMAIN tasks : BroadcastRead(t)
    \/ \E t \in DOMAIN tasks : Topology(t)
    \/ \E t \in DOMAIN tasks : GossipSend(t)
    \/ \E t \in DOMAIN tasks : GossipAfterRpc(t)
    \/ \E req \in Requests : EchoReadLine(req)
    \/ CtrlC
    \/ EchoBreak
    \/ EchoEof
    \/ EchoReturn
    \/ \E l \in routing : EchoRoute(l)
    \/ \E t \in DOMAIN tasks : EchoHandle(t)
    \/ \E t \in DOMAIN tasks : SendImplPrint(t)
    \/ \E t \in DOMAIN tasks : EchoCancelled(t)

Spec == Init /\ [][Next]_vars

\* The cluster: no single node is stepped.
ClusterInit ==
    /\ bin = "cluster"
    /\ runpc = "loop"
    /\ cancelled = FALSE
    /\ nreq = 0
    /\ next_msg_id = 0
    /\ response_map = <<>>
    /\ tasks = <<>>
    /\ routing = {}
    /\ out = {}
    /\ last = NoLine
    /\ net = {}
    /\ kv = <<>>
    /\ held = {<<>>}
    /\ uuid_count = 0
    /\ seen = {}
    /\ neighbors = Unset
    /\ ClusterStart

ClusterNext ==
    \/ \E n \in CNodes : CTopology(n)
    \/ \E n \in CNodes : CBroadcast(n)
    \/ \E n \in CNodes : CRead(n)
    \/ \E q \in c_wire : CGossip(q)
    \/ \E r \in c_wire : CGossipReply(r)
    \/ \E t \in c_tasks : CGossipTimeout(t)
    \/ \E x \in c_wire : CLose(x)

\* A message on the wire reaches its node and is handled, and a timer that
\* runs fires: tokio steps every task, and the links deliver.
ClusterFairness ==
    /\ WF_vars(\E q \in c_wire : CGossip(q))
    /\ WF_vars(\E r \in c_wire : CGossipReply(r))
    /\ WF_vars(\E t \in c_tasks : CGossipTimeout(t))

Cluster == ClusterInit /\ [][ClusterNext]_vars /\ ClusterFairness

\* =================================================================== claims
\* ------------------------------------------------------------ the cluster
\* The values broadcast so far, and their having reached every node.
Broadcasted == 1..c_sent
Converged == \A n \in CNodes : c_seen[n] = Broadcasted
\* No node has handled a broadcast, or the gossip of a new message, before its
\* topology message: none has returned the precondition_failed error.
TopologyFirst == \A r \in c_out : r.type # "error"

\* C1 (as the code has it): broadcast convergence: when every node handles
\* its topology message before any broadcast or gossip, then under links that
\* lose messages but deliver one of the retries, there is a state after which
\* the seen_messages of every node are the values broadcast.
C1_ConvergesAfterTopology == ([]TopologyFirst) => <>[]Converged

\* Every value was broadcast and has reached every node, by gossip over two
\* hops, after a message was lost and a task sent its message again.
C1_Witness ==
    /\ TopologyFirst /\ Converged
    /\ c_sent = MaxBroadcasts /\ c_lost = MaxLoss
    /\ \E t \in c_tasks : t.by = "gossip" /\ t.st = "done"
    /\ \E t \in c_tasks : t.attempt > 1 /\ t.st = "done"

\* C1 as stated: in any interleaving with the topology messages, there is a
\* state after which the seen_messages of every node are the values broadcast.
C1_Converges == <>[]Converged
\* ---------------------------------------------------------------- counter
\* The add requests handled so far, and what they should have stored.
AddTasks == {t \in DOMAIN tasks : tasks[t].kind = "line" /\ tasks[t].line.type = "add"}
AddOk(t) == reply(tasks[t].line, "add_ok", 0) \in out
StoredValue == IF bucket \in DOMAIN kv THEN kv[bucket] ELSE 0
RECURSIVE SumOfDeltas(_)
SumOfDeltas(T) ==
    IF T = {} THEN 0
    ELSE LET t == CHOOSE x \in T : TRUE IN tasks[t].line.val + SumOfDeltas(T \ {t})

\* C2: counter increments are never lost: once every add request handled so
\* far has been answered add_ok, the value stored in seq-kv for the counter is
\* the sum of their deltas (two concurrent add{1} on a missing key store 2).
C2_IncrementsNeverLost ==
    (bin = "counter" /\ \A t \in AddTasks : AddOk(t)) => StoredValue = SumOfDeltas(AddTasks)

\* -------------------------------------------------------------- broadcast
\* The broadcast requests whose handler has run to its end on a node that has
\* no topology (neighbors is set once, so it had none when the handler ran).
BroadcastTasks ==
    {t \in DOMAIN tasks : tasks[t].kind = "line" /\ tasks[t].line.type = "broadcast"}
HandledWithoutTopology(t) ==
    /\ bin = "broadcast" /\ t \in BroadcastTasks
    /\ tasks[t].pc \in {"done", "panicked"} /\ ~neighbors.set
NoGossipEmitted ==
    /\ \A m \in out : m.type # "gossip"
    /\ \A t \in DOMAIN tasks : tasks[t].kind # "gossip"

\* C3 (as the code has it): a broadcast{m} handled by a node that has no
\* topology yet stores m in seen_messages, is answered with an error reply of
\* code 22 (precondition_failed) and not with broadcast_ok, and no gossip
\* message is emitted.
C3_BroadcastBeforeTopologyFails ==
    \A t \in DOMAIN tasks : HandledWithoutTopology(t) =>
        /\ tasks[t].line.val \in seen
        /\ error_reply(tasks[t].line, PRECONDITION_FAILED) \in out
        /\ reply(tasks[t].line, "broadcast_ok", 0) \notin out
        /\ NoGossipEmitted

C3_Witness ==
    \E t \in DOMAIN tasks :
        /\ HandledWithoutTopology(t)
        /\ error_reply(tasks[t].line, PRECONDITION_FAILED) \in out

\* C3 as stated: such a broadcast is not an error: it is answered with
\* broadcast_ok and with no error reply.
C3_BroadcastBeforeTopologyAcked ==
    \A t \in DOMAIN tasks : HandledWithoutTopology(t) =>
        /\ tasks[t].line.val \in seen
        /\ reply(tasks[t].line, "broadcast_ok", 0) \in out
        /\ \A m \in out : ~(m.type = "error" /\ m.in_reply_to = tasks[t].line.msg_id)
        /\ NoGossipEmitted

\* ------------------------------------------------------------ the runtime
\* The call an entry of response_map was stored by.
CallOf(e) == tasks[e.task].call
Awaiting(e) == CallOf(e).n = e.n /\ CallOf(e).st \in {"wait", "elapsed"}

\* C4: correlation-table lifecycle: in every state response_map holds only
\* entries of rpc calls that have not ended (by reply, timeout or
\* cancellation), each under its call's own msg_id.
C4_TableHoldsOnlyAwaitingCalls ==
    \A k \in DOMAIN response_map :
        Awaiting(response_map[k]) /\ CallOf(response_map[k]).msg_id = k

\* C5 as stated: msg_id monotonicity: each line a node prints carries a
\* strictly greater msg_id than the line it printed before.
C5_MsgIdsIncrease == [][last # NoLine /\ last' # last => last'.msg_id > last.msg_id]_vars

\* C5 (as the code has it): msg_ids are taken from a counter that only
\* grows, so the lines that carry a msg_id carry different ones; the order in
\* which lines are printed is not the order of their msg_ids, and under
\* node.rs only rpc requests carry one (no reply, error or init_ok does),
\* while under lib.rs every line does.
C5_MsgIdsUnique ==
    /\ \A m \in out : m.msg_id # None => m.msg_id \in 0..(next_msg_id - 1)
    /\ \A m, n \in out : m.msg_id # None /\ m.msg_id = n.msg_id => m = n
    /\ bin \in NodeBins => \A m \in out : (m.msg_id = None) = (m.in_reply_to # None)
    /\ bin = "echo" => \A m \in out : m.msg_id # None

\* A task has taken a msg_id and not printed its line yet, and a line with a
\* greater msg_id is printed already.
C5_Witness ==
    \E t \in DOMAIN tasks :
        /\ tasks[t].call.st = "alloc"
        /\ \E m \in out : m.msg_id > tasks[t].call.msg_id

\* C6: correlation exactness: a line handed to an rpc call as its response
\* has in_reply_to equal to the msg_id the call took and printed; a reply to
\* another request, or to the earlier request of a retry, is never accepted.
C6_CorrelationExact ==
    \A t \in DOMAIN tasks :
        tasks[t].call.got # NoLine =>
            /\ tasks[t].call.got.in_reply_to = tasks[t].call.msg_id
            /\ tasks[t].call.req.msg_id = tasks[t].call.msg_id
            /\ tasks[t].call.req \in out

\* A retried gossip call has its response, after the request it retries
\* timed out.
C6_Witness ==
    \E t \in DOMAIN tasks :
        /\ tasks[t].kind = "gossip" /\ tasks[t].retries > 0
        /\ tasks[t].call.chan = "full"
        /\ \E m \in out : m.type = "gossip" /\ m.msg_id # tasks[t].call.msg_id

\* The receiver of the call that stored e is still there, with nothing in it.
Listening(e) == CallOf(e).n = e.n /\ CallOf(e).chan = "empty"
NoReplyLineHandled ==
    \A t \in DOMAIN tasks : tasks[t].kind = "line" => ~IsReply(tasks[t].line)
NothingElseChanged ==
    /\ out' = out /\ last' = last /\ net' = net
    /\ UNCHANGED <<run, next_msg_id, handler>>

\* C7 (as the code has it): a line that carries in_reply_to = k is never
\* passed to the handler; when its task runs, an entry under k is removed,
\* and the line is delivered to the call that stored the entry if that call
\* is still waiting; when there is no entry, or the call has stopped waiting
\* (its timeout elapsed, it was cancelled), the line is dropped; nothing is
\* printed and nothing else changes.
C7_RepliesRouted ==
    /\ []NoReplyLineHandled
    /\ [][\A l \in routing \ routing' :
            LET k == l.in_reply_to
                present == k \in DOMAIN response_map
            IN  /\ NothingElseChanged
                /\ response_map' = IF present THEN Remove(response_map, k) ELSE response_map
                /\ IF present /\ Listening(response_map[k])
                   THEN /\ CallOf(response_map[k]).msg_id = k
                        /\ tasks' = [tasks EXCEPT ![response_map[k].task].call.chan = "full",
                                                  ![response_map[k].task].call.got = l]
                   ELSE tasks' = tasks]_vars

\* A reply came in after its call's timeout elapsed and before the call
\* removed its entry: the entry is gone and the call has no reply.
C7_Witness ==
    \E t \in DOMAIN tasks :
        /\ tasks[t].call.st = "elapsed"
        /\ tasks[t].call.msg_id \notin DOMAIN response_map
        /\ tasks[t].call.got = NoLine

\* C7 as stated: whenever the table has an entry under k, the line is
\* delivered to the call that stored it (here for lines routed before any
\* cancellation, where no entry is left behind by a cancelled call).
C7_RepliesDelivered ==
    [][\A l \in routing \ routing' :
          ~cancelled /\ l.in_reply_to \in DOMAIN response_map =>
              tasks'[response_map[l.in_reply_to].task].call.got = l]_vars

\* C8: rpc timeout: a call whose timeout elapsed with no reply in its channel
\* returns Timeout and nothing else; a call has one outcome, which never
\* changes; a line is delivered to one call at most, once, and a reply line
\* never reaches a handler.
CallOutcomes ==
    \A t \in DOMAIN tasks :
        LET c == tasks[t].call IN
        /\ c.res \in {"", "reply", "timeout", "abort"}
        /\ (c.st = "returned") = (c.res # "")
        /\ c.st = "elapsed" => c.tmo /\ c.chan = "closed" /\ c.got = NoLine
        /\ c.res = "timeout" => c.tmo /\ c.got = NoLine /\ c.msg_id \notin DOMAIN response_map
        /\ c.res = "reply" => c.got # NoLine
DeliveredOnce ==
    \A t, u \in DOMAIN tasks :
        t # u /\ tasks[t].call.got # NoLine => tasks[t].call.got # tasks[u].call.got
C8_TimeoutOutcome ==
    /\ [](CallOutcomes /\ DeliveredOnce /\ NoReplyLineHandled)
    /\ [][\A t \in DOMAIN tasks :
            LET c == tasks[t].call
                d == tasks'[t].call
            IN  /\ c.st = "elapsed" /\ d # c => d.n = c.n /\ d.st = "returned" /\ d.res = "timeout"
                /\ c.st = "returned" /\ d.n = c.n => d = c
                /\ c.got # NoLine /\ d.n = c.n => d.got = c.got]_vars

\* A call has returned Timeout and the reply to its request comes in late.
C8_Witness ==
    \E t \in DOMAIN tasks :
        /\ tasks[t].call.res = "timeout"
        /\ \E l \in routing : l.in_reply_to = tasks[t].call.msg_id

\* C9: graceful shutdown: when the run loop has left its loop over the input
\* lines, the cancellation signal is asserted (so that every task it spawned
\* ends and run returns).
C9_EofCancels == runpc \in {"wait", "done"} => cancelled

\* C10: cancellation of outstanding rpcs: once the token is cancelled, a call
\* that is awaiting its reply, with a timeout or without one, stops waiting
\* only with its reply, with its timeout elapsed, or by returning Abort.
C10_CancelledCallsAbort ==
    [][\A t \in DOMAIN tasks :
          LET c == tasks[t].call
              d == tasks'[t].call
          IN  cancelled /\ c.st = "wait" /\ d.n = c.n /\ d.st # "wait" =>
                  \/ d.st = "elapsed"
                  \/ d.st = "returned" /\ d.res \in {"abort", "reply"}]_vars

\* ------------------------------------------------------- errors of handlers
\* An error reply of a fatal code has been printed.
FatalReplyPrinted == \E m \in out : m.type = "error" /\ m.val \in {CRASH, ABORT}

\* C11: fatal handler errors: once the error reply of a handler error of code
\* crash (13) or abort (14) is printed, the process is over: no further line
\* is read, no task runs and nothing more is printed.
C11_FatalErrorsTerminate ==
    [][FatalReplyPrinted => nreq' = nreq /\ tasks' = tasks /\ out' = out]_vars

\* The error replies printed for the request of task t, and the ends of a task.
ErrorsFor(t) == {m \in out : m.type = "error" /\ m.in_reply_to = tasks[t].line.msg_id}
Final == {"done", "panicked", "cancelled", "failed"}
ErrorReplied ==
    \A t \in DOMAIN tasks : tasks[t].kind = "line" =>
        /\ tasks[t].err = None => ErrorsFor(t) = {}
        /\ tasks[t].err # None /\ tasks[t].pc \in Final =>
              /\ Cardinality(ErrorsFor(t)) = 1
              /\ \A m \in ErrorsFor(t) :
                    m.src = Me /\ m.dest = tasks[t].line.src /\ m.val = tasks[t].err

\* C12: error reply: for a request whose handler returned an error, one error
\* message is printed, with dest the request's src, in_reply_to the request's
\* msg_id, and the error's code; it is printed in the step that ends the
\* request's task, which ends once; no error is printed for another request.
C12_ErrorReplied ==
    /\ []ErrorReplied
    /\ [][/\ \A m \in out' \ out : m.type = "error" =>
                \E t \in DOMAIN tasks :
                    /\ tasks[t].pc \notin Final /\ tasks'[t].pc \in Final
                    /\ m.in_reply_to = tasks[t].line.msg_id /\ m.val = tasks'[t].err
          /\ \A t \in DOMAIN tasks :
                tasks[t].pc \in Final => tasks'[t].pc = tasks[t].pc /\ tasks'[t].err = tasks[t].err
         ]_vars

\* Two requests have failed, with different errors, and each has its reply.
C12_Witness ==
    \E t, u \in DOMAIN tasks :
        /\ tasks[t].kind = "line" /\ tasks[u].kind = "line"
        /\ tasks[t].pc \in Final /\ tasks[u].pc \in Final
        /\ tasks[t].err # None /\ tasks[u].err # None /\ tasks[t].err # tasks[u].err
        /\ ErrorsFor(t) # {} /\ ErrorsFor(u) # {}

\* ------------------------------------------------------------ the topology
\* The step handles the topology request of task t.
TopologyHandled(t) ==
    /\ tasks[t].kind = "line" /\ tasks[t].line.type = "topology"
    /\ tasks[t].pc = "spawned" /\ tasks'[t].pc \in {"done", "panicked"}
\* What is wrong with a topology message in itself: this node is not in it,
\* or a neighbor of this node has a name that is not a node's.
TopologyFault(l) ==
    LET entry == {p \in l.topo : p[1] = Me} IN
    IF entry = {} THEN NODE_NOT_FOUND
    ELSE IF \E p \in entry : \E i \in 1..Len(p[2]) : p[2][i][1] # "n" THEN CRASH
    ELSE None
\* neighbors is written once, and by a topology request answered topology_ok.
WrittenOnce ==
    /\ neighbors.set => neighbors' = neighbors
    /\ neighbors' # neighbors =>
          \E t \in DOMAIN tasks :
              TopologyHandled(t) /\ last' = reply(tasks[t].line, "topology_ok", 0)

\* C13 (as the code has it): topology is write-once: neighbors is written at
\* most once, by the first topology message that is accepted and answered
\* topology_ok; a later topology message leaves neighbors as it is and is
\* answered with an error: node_not_found (1) when this node is not in it,
\* crash (13) when a neighbor's name is not a node's, and otherwise
\* precondition_failed (22).
C13_TopologyWrittenOnce ==
    [][/\ WrittenOnce
       /\ \A t \in DOMAIN tasks : TopologyHandled(t) /\ neighbors.set =>
             last' = error_reply(tasks[t].line,
                                 IF TopologyFault(tasks[t].line) # None
                                 THEN TopologyFault(tasks[t].line) ELSE PRECONDITION_FAILED)
      ]_vars

\* A second topology message, right in itself, was refused with code 22.
C13_Witness ==
    /\ neighbors.set
    /\ \E t, u \in DOMAIN tasks :
          /\ tasks[t].line.type = "topology" /\ tasks[u].line.type = "topology"
          /\ reply(tasks[t].line, "topology_ok", 0) \in out
          /\ error_reply(tasks[u].line, PRECONDITION_FAILED) \in out

\* C13 as stated: every later topology message is answered with
\* precondition_failed (22).
C13_LaterTopologyRefused ==
    [][/\ WrittenOnce
       /\ \A t \in DOMAIN tasks : TopologyHandled(t) /\ neighbors.set =>
             last' = error_reply(tasks[t].line, PRECONDITION_FAILED)
      ]_vars

\* ---------------------------------------------------------------- reads
\* Of two read_ok replies of one node the later has the messages of the earlier.
ReadsMonotone ==
    \A r1, r2 \in CReadOks :
        r1.src = r2.src /\ r1.seq < r2.seq => r1.messages \subseteq r2.messages

\* C14: broadcast read monotonicity: seen_messages of a node never loses an
\* element, and of two read requests answered by one node the messages of the
\* earlier read_ok are among the messages of the later one, in any
\* interleaving with broadcast, gossip and topology messages.
C14_ReadsMonotone ==
    /\ []ReadsMonotone
    /\ [][\A n \in CNodes : c_seen[n] \subseteq c_seen'[n]]_vars

\* A node has answered a read before a value reached it and a read after.
C14_Witness ==
    \E r1, r2 \in CReadOks :
        /\ r1.src = r2.src /\ r1.seq < r2.seq
        /\ r1.messages # r2.messages /\ r2.messages = c_seen[r2.src]

\* ---------------------------------------------------------------- gossip
\* The gossip tasks, and the tasks a step spawns.
GossipTaskIds == {t \in DOMAIN tasks : tasks[t].kind = "gossip"}
SpawnedNow == (DOMAIN tasks') \ DOMAIN tasks
\* The step propagates the new message of the gossip request of task t.
GossipPropagated(t) ==
    /\ tasks[t].kind = "line" /\ tasks[t].line.type = "gossip"
    /\ tasks[t].pc = "g_gossip" /\ tasks'[t].pc = "done"
\* Every request of a gossip task is a gossip of its message to its neighbor.
GossipTaskRequests ==
    \A t \in GossipTaskIds : tasks[t].call.req # NoLine =>
        /\ tasks[t].call.req.type = "gossip"
        /\ tasks[t].call.req.dest = node_id(tasks[t].todo[1])
        /\ tasks[t].call.req.val = tasks[t].val

\* C15: gossip suppression: the tasks a node spawns when it handles a gossip
\* request from neighbor s are for its other neighbors, one each, and none
\* for s; a task never changes its neighbor or its message, so each request
\* it prints, the first and the ones sent again, goes to that neighbor; and
\* a gossip message is printed by such a task only.
C15_GossipSuppressed ==
    /\ []GossipTaskRequests
    /\ [][/\ \A t \in DOMAIN tasks : GossipPropagated(t) =>
                LET s == parse_node_id(tasks[t].line.src) IN
                /\ \A i \in SpawnedNow :
                      /\ tasks'[i].kind = "gossip" /\ tasks'[i].val = tasks[t].line.val
                      /\ tasks'[i].todo[1] # s
                /\ {tasks'[i].todo[1] : i \in SpawnedNow} = Range(neighbors.ids) \ {s}
          /\ \A t \in GossipTaskIds :
                tasks'[t].todo = tasks[t].todo /\ tasks'[t].val = tasks[t].val
          /\ \A m \in out' \ out : m.type = "gossip" =>
                \E t \in GossipTaskIds : tasks[t].call.req = m
         ]_vars

\* A node with neighbors n1 and n2 has handled a gossip from n1: its one task
\* is for n2, and has sent its message a second time.
C15_Witness ==
    /\ Range(neighbors.ids) = {1, 2}
    /\ \E t \in DOMAIN tasks :
          /\ tasks[t].line.type = "gossip" /\ tasks[t].line.src = node_id(1)
          /\ reply(tasks[t].line, "gossip_ok", 0) \in out
    /\ \A t \in DOMAIN tasks : tasks[t].line.type # "broadcast"
    /\ \E t \in GossipTaskIds :
          tasks[t].todo = <<2>> /\ tasks[t].retries = 1 /\ tasks[t].call.st = "wait"

\* The gossip requests, and the step that ends the handler of one.
GossipRequests == {t \in DOMAIN tasks : tasks[t].kind = "line" /\ tasks[t].line.type = "gossip"}
GossipAnswered(t) ==
    /\ t \in GossipRequests
    /\ tasks[t].pc \in {"spawned", "g_gossip"} /\ tasks'[t].pc \in {"done", "panicked"}
GossipStored ==
    \A t \in GossipRequests :
        tasks[t].pc \in {"g_gossip", "done", "panicked"} => tasks[t].line.val \in seen

GossipTaskEnds ==
    \A t \in GossipTaskIds :
        /\ tasks[t].pc \in {"spawned", "g_wait", "done", "failed"}
        /\ tasks[t].pc = "done" => tasks[t].call.got.type = "gossip_ok"
        /\ tasks[t].pc = "failed" =>
              \/ tasks[t].call.res = "abort" /\ cancelled
              \/ /\ tasks[t].call.res = "reply"
                 /\ tasks[t].call.got.type \notin {"", "gossip_ok"}

\* C17 (as the code has it): gossip retry: a gossip task sends its message to
\* its neighbor again, under a new msg_id, each time its request times out,
\* and goes on until a response to one of its requests comes in or the node
\* shuts down: the acknowledgement ends it, and so does any other response
\* (an error reply), with the message unacknowledged.
C17_RetriesUntilResponse ==
    /\ []GossipTaskEnds
    /\ [][\A t \in GossipTaskIds :
            LET c == tasks[t].call
                d == tasks'[t].call
            IN  /\ c.res = "timeout" /\ tasks'[t] # tasks[t] =>
                      /\ tasks'[t].pc = "g_wait" /\ tasks'[t].retries = tasks[t].retries + 1
                      /\ d.n = c.n + 1 /\ d.st = "alloc" /\ d.msg_id # c.msg_id
                      /\ d.req.dest = c.req.dest /\ d.req.val = c.req.val
                      /\ d.req.type = "gossip"
                /\ tasks[t].pc \notin Final /\ tasks'[t].pc \in Final =>
                      Ready(t) /\ c.res # "timeout"
         ]_vars

\* A gossip task has sent its message again after a timeout, and ended when
\* the neighbor answered with an error.
C17_Witness ==
    \E t \in GossipTaskIds :
        /\ tasks[t].retries = 1 /\ tasks[t].pc = "failed"
        /\ tasks[t].call.got.type = "error" /\ ~cancelled

\* C17 as stated: while the node is running, a gossip task stops only with
\* the acknowledgement of its neighbor.
C17_RetriesUntilAcked ==
    [][\A t \in GossipTaskIds :
          ~cancelled /\ tasks[t].pc \notin Final /\ tasks'[t].pc \in Final =>
              tasks[t].call.got.type = "gossip_ok"]_vars

\* ----------------------------------------------------------------- replies
\* The lines the node has received that it may reply to: the init message and
\* the requests of its tasks.
Sources == {InitMsg} \cup {tasks[t].line : t \in {i \in DOMAIN tasks : tasks[i].kind = "line"}}
\* The replies the node has printed.
Replies == {m \in out : m.in_reply_to # None}
\* The requests whose handler has replied, and not with an error.
Replied == {t \in DOMAIN tasks : tasks[t].kind = "line" /\ tasks[t].pc = "done" /\ tasks[t].err = None}

\* C18: reply correctness: every reply the node prints has the node as src,
\* and dest and in_reply_to equal to the src and the msg_id of one line the
\* node has received; and a request whose handler has replied has one reply,
\* with dest its src and in_reply_to its msg_id.
C18_RepliesAddressed ==
    /\ \A m \in Replies :
          /\ m.src = Me
          /\ \E s \in Sources : m.dest = s.src /\ m.in_reply_to = s.msg_id
    /\ \A t \in Replied :
          Cardinality({m \in Replies : m.dest = tasks[t].line.src
                                        /\ m.in_reply_to = tasks[t].line.msg_id}) = 1

\* Requests of two senders have their replies.
C18_Witness ==
    \E t, u \in Replied :
        /\ tasks[t].line.src # tasks[u].line.src
        /\ \E m \in Replies : m.dest = tasks[t].line.src /\ m.in_reply_to = tasks[t].line.msg_id
        /\ \E m \in Replies : m.dest = tasks[u].line.src /\ m.in_reply_to = tasks[u].line.msg_id

\* ---------------------------------------------------------------- bootstrap
\* Before anything is printed no request line is read and no task spawned,
\* and a process that found no init message prints nothing at all.
NothingBeforeInitOk ==
    /\ out = {} =>
          /\ nreq = 0 /\ tasks = <<>> /\ routing = {} /\ net = {}
          /\ response_map = <<>> /\ next_msg_id = 0
    /\ runpc = "init" => out = {}
    /\ runpc = "failed" => out = {}

\* C19: bootstrap ordering: the first line is consumed as the init message,
\* and init_ok, with dest the src of init and in_reply_to its msg_id, is the
\* first message printed; no line is read for a handler, no task is spawned
\* and nothing else is printed before it.
C19_InitOkFirst ==
    /\ []NothingBeforeInitOk
    /\ [][/\ out = {} /\ out' # {} =>
                /\ runpc = "init" /\ runpc' = "loop"
                /\ out' = {last'} /\ last'.type = "init_ok" /\ last'.src = Me
                /\ last'.dest = InitMsg.src /\ last'.in_reply_to = InitMsg.msg_id
          /\ runpc = "init" /\ runpc' = "loop" => out' # {}
         ]_vars

\* init_ok is printed, and a request after it is answered.
C19_Witness ==
    /\ \E m \in out : m.type = "init_ok"
    /\ \E t \in DOMAIN tasks : tasks[t].pc = "done" /\ Cardinality(out) > 1

\* ------------------------------------------------------- undecodable lines
\* C20: undecodable input is dropped: the task of a line that does not parse
\* ends with nothing printed and no state of the node or the handler changed,
\* and reading a line, one that does not parse in particular, leaves the run
\* loop running, so that later lines are processed.
C20_UndecodableDropped ==
    [][/\ nreq' = nreq + 1 => runpc' = "loop"
       /\ \A t \in DOMAIN tasks :
             (~Decodable(tasks[t].line) /\ tasks[t].pc = "spawned" /\ tasks'[t].pc # "spawned")
                 => /\ out' = out /\ response_map' = response_map
                    /\ UNCHANGED <<run, next_msg_id, handler>>
      ]_vars

\* ------------------------------------------------- requests of unknown type
\* The line tasks of well-formed requests whose payload type the binary does
\* not know, and the protocol error replies printed for a request line.
UnknownRequests ==
    {t \in DOMAIN tasks : tasks[t].kind = "line" /\ tasks[t].line.type = "unknown"}
ProtocolErrorReplies(l) ==
    {m \in out : /\ m.type = "error" /\ m.val \in {MALFORMED_REQUEST, NOT_SUPPORTED}
                 /\ m.dest = l.src /\ m.in_reply_to = l.msg_id}

\* C21: protocol error reply: when the task of a well-formed request of an
\* identifiable sender whose payload type the workload does not know has ended,
\* an error reply of code malformed_request (12) or not_supported (10),
\* addressed to the sender and with in_reply_to the request's msg_id, has been
\* printed.
C21_ProtocolErrorReplied ==
    \A t \in UnknownRequests :
        tasks[t].pc \in Final => ProtocolErrorReplies(tasks[t].line) # {}

\* ------------------------------------------------------ seq-kv operations
\* C22: every seq-kv client operation is an rpc with a timeout: each call
\* whose request goes to seq-kv carries a timeout.
C22_SeqKvCallsTimeOut ==
    \A t \in DOMAIN tasks :
        tasks[t].call.st # "none" /\ tasks[t].call.req.dest = SeqKv => tasks[t].call.tmo

\* C23: in the counter's add, only the key_does_not_exist outcome of the
\* initial read counts as the current value 0: the write of the new value is
\* sent only after a read that answered read_ok or key_does_not_exist.
C23_OnlyMissingKeyIsZero ==
    [][\A t \in DOMAIN tasks :
           tasks[t].pc = "add_read" /\ tasks'[t].pc = "add_write"
               => \/ tasks[t].call.got.type = "read_ok"
                  \/ /\ tasks[t].call.got.type = "error"
                     /\ tasks[t].call.got.val = KEY_DOES_NOT_EXIST]_vars

\* ------------------------------------------------------- reads of the counter
\* The read_ok replies of a counter node, and the values the counter, the sum
\* of the buckets, has held so far.
CounterReadOks == {m \in out : bin = "counter" /\ m.type = "read_ok"}
Totals == {Total(k) : k \in held}

\* C24 (amended): the value of every read_ok of a counter node is the sum, over
\* the nodes, of a value the bucket of that node held in seq-kv at some time
\* between the start of the run and the reply, where a bucket without a key and
\* a node that did not answer within the timeout count 0.
C24_ReadsSumCommittedBuckets ==
    \A m \in CounterReadOks :
        \E k0 \in held : \E k1 \in held :
            m.val = Stored(k0, bucket) + Stored(k1, node_id(1))

\* A read has been answered, after the other node answered it, with a sum that
\* the counter never held.
C24_Witness ==
    /\ \E m \in CounterReadOks : m.val \notin Totals
    /\ \E t \in DOMAIN tasks :
          /\ tasks[t].line.type = "read" /\ tasks[t].pc = "done"
          /\ tasks[t].ncalls = 2 /\ tasks[t].call.res = "reply"

\* C24: counter reads return committed values: the value of every read_ok is
\* a value the counter, the sum of what seq-kv stores, held in some state
\* between the start of the run and the reply.
C24_ReadsReturnHeldValues == \A m \in CounterReadOks : m.val \in Totals

\* ---------------------------------------------------------------- unique ids
\* The generate_ok replies of the node, and the node ids, clock readings and
\* counts at which another node may make an id.
GenerateOks == {m \in out : m.type = "generate_ok"}
OtherNodeIds == {1, 256, 65536, 16777216}
OtherCounts == {0, 1, ClockSeqs - 1, ClockSeqs}

\* C25: unique ids: no two generate_ok replies of the node carry the same id,
\* whichever way their requests were handled, and no id of the node is an id
\* that a node of another node id makes, whatever its clock and its count.
C25_UniqueIds ==
    /\ \A m1 \in GenerateOks : \A m2 \in GenerateOks : m1.id = m2.id => m1 = m2
    /\ \A m \in GenerateOks : \A n \in OtherNodeIds :
          \A ts \in Timestamps : \A c \in OtherCounts : make_uuid(n, ts, c) # m.id

\* Two requests have been answered with ids made at the same reading of the
\* clock.
C25_Witness ==
    \E m1 \in GenerateOks : \E m2 \in GenerateOks :
        m1 # m2 /\ m1.id.time = m2.id.time

\* ------------------------------------------------------- the order of an rpc
\* C26: rpc step order: the sender of a call is in the correlation table when
\* the request of the call is printed, and a reply line that is routed once
\* the request is on the output, while its call has not ended, is delivered to
\* the call.
C26_SlotBeforeRequest ==
    [][/\ \A m \in out' \ out :
             m.msg_id # None /\ m.in_reply_to = None => m.msg_id \in DOMAIN response_map
       /\ \A l \in routing \ routing' : \A t \in DOMAIN tasks :
             (/\ tasks[t].call.msg_id = l.in_reply_to
              /\ tasks[t].call.req \in out
              /\ tasks[t].call.st \in {"emitted", "wait"}
              /\ tasks[t].call.chan # "full")
                 => tasks'[t].call.got = l]_vars

\* ------------------------------------------------------ gossip, once a value
\* The gossip tasks of the cluster that a gossip request started, the pair of
\* a task and the gossip requests on the wire.
CGossipStarted(T) == {t \in T : t.by = "gossip"}
CSamePair(t1, t2) ==
    t1.from = t2.from /\ t1.to = t2.to /\ t1.message = t2.message /\ t1.by = t2.by
CGossipRequests(W) == {x \in W : x.type = "gossip"}

\* C27: gossip de-duplication: a gossip request whose value is in the seen set
\* of its receiver starts no gossip: no task is spawned and no request sent; a
\* node starts the gossip of a value it received by gossip only in the step
\* that puts the value into its seen set, hence once at most; and there is one
\* task at most for a value, a node and a neighbor, so the tasks started for
\* the broadcasts of a run are finitely many.
C27_GossipOncePerValue ==
    /\ [](\A t1 \in c_tasks : \A t2 \in c_tasks : CSamePair(t1, t2) => t1 = t2)
    /\ [][/\ \A q \in CGossipRequests(c_wire) \ c_wire' :
                q.message \in c_seen[q.dest]
                    => /\ c_tasks' = c_tasks
                       /\ CGossipRequests(c_wire') \subseteq c_wire
          /\ \A t \in CGossipStarted(c_tasks') :
                (\A u \in c_tasks : ~CSamePair(t, u))
                    => t.message \notin c_seen[t.from] /\ t.message \in c_seen'[t.from]
         ]_vars

\* A node has acknowledged the same gossip twice: the replies to the request
\* and to its retry are both on the wire, and the node has passed the value on
\* to its other neighbor.
C27_Witness ==
    \E r1 \in c_wire : \E r2 \in c_wire :
        /\ r1.type = "gossip_ok" /\ r2.type = "gossip_ok"
        /\ r1.src = r2.src /\ r1.dest = r2.dest /\ r1.message = r2.message
        /\ r1.attempt = 1 /\ r2.attempt = 2
        /\ \E t \in CGossipStarted(c_tasks) : t.from = r1.src /\ t.message = r1.message

\* ------------------------------------------------------- add_ok and the write
\* The write of the new value by the add of task t was refused.
WriteRefused(t) ==
    /\ tasks[t].line.type = "add"
    /\ tasks[t].call.req.type = "write" /\ tasks[t].call.got.type = "error"
AddOksFor(t) == {m \in out : m.type = "add_ok" /\ m.in_reply_to = tasks[t].line.msg_id}

\* add_ok is printed for an add only in a step of its handler that finds the
\* write of its new value acknowledged by seq-kv with write_ok, the value
\* having been stored under the bucket.
AddOkAfterWriteOk ==
    \A m \in out' \ out :
        m.type = "add_ok" =>
            \E t \in DOMAIN tasks :
               /\ tasks[t].pc = "add_write" /\ tasks'[t].pc = "done"
               /\ tasks[t].line.msg_id = m.in_reply_to /\ tasks[t].line.src = m.dest
               /\ tasks[t].call.req.type = "write" /\ tasks[t].call.req.key = bucket
               /\ tasks[t].call.req.val = tasks[t].val
               /\ tasks[t].call.got.type = "write_ok"
               /\ tasks[t].call.got.in_reply_to = tasks[t].call.msg_id
               /\ \E k \in held : bucket \in DOMAIN k /\ k[bucket] = tasks[t].val

CBroadcastOks(n) == {b \in c_out : b.type = "broadcast_ok" /\ b.src = n}

\* C29: acknowledged broadcasts are readable: the value of every broadcast_ok
\* a node has printed is in the seen set of that node, and every read_ok a
\* node prints holds the values of all the broadcast_ok replies it has printed
\* before.
C29_AckedBroadcastsReadable ==
    /\ [](\A n \in CNodes : \A b \in CBroadcastOks(n) : b.message \in c_seen[n])
    /\ [][\A r \in c_out' \ c_out :
             r.type = "read_ok" => \A b \in CBroadcastOks(r.src) : b.message \in r.messages]_vars

\* A node has acknowledged a broadcast and answered a read with its value.
C29_Witness ==
    \E r \in CReadOks : \E b \in CBroadcastOks(r.src) : b.message \in r.messages

\* ------------------------------------------------------ one reply a request
\* The request lines that have a task, and, of the lines O, the replies to the
\* request of task t.
LineTasks == {t \in DOMAIN tasks : tasks[t].kind = "line"}
RepliesTo(O, t) ==
    {m \in O : m.in_reply_to = tasks[t].line.msg_id /\ m.dest = tasks[t].line.src}

\* C30: at most one reply per request: at no time has the node printed two
\* messages in reply to one request, a success reply and an error reply among
\* them or not; a reply to a request is printed in the step that ends the task
\* of the request, by the handler or by the error path of the runtime, and a
\* task that has ended stays ended.
C30_AtMostOneReply ==
    /\ [](\A t \in LineTasks :
             /\ Cardinality(RepliesTo(out, t)) <= 1
             /\ tasks[t].pc \notin Final => RepliesTo(out, t) = {})
    /\ [][\A t \in LineTasks :
             /\ RepliesTo(out', t) # RepliesTo(out, t)
                   => /\ tasks[t].pc \notin Final /\ tasks'[t].pc \in Final
                      /\ Cardinality(out' \ out) = 1
             /\ tasks[t].pc \in Final => tasks'[t].pc = tasks[t].pc
         ]_vars

\* Two requests have ended, one with the reply of its handler and one with an
\* error reply.
C30_Witness ==
    \E t \in LineTasks : \E u \in LineTasks :
        /\ tasks[t].pc \in Final /\ tasks[t].err = None /\ RepliesTo(out, t) # {}
        /\ tasks[u].pc \in Final /\ tasks[u].err # None /\ RepliesTo(out, u) # {}

\* ------------------------------------------------------- broadcast validity
\* The values of the broadcast requests the clients have sent: each has been
\* handled by the node it was sent to, with broadcast_ok or with an error.
CBroadcastValues ==
    {r.message : r \in {x \in c_out : x.type \in {"broadcast_ok", "error"} /\ x.dest = Client}}

\* C31: broadcast validity: every value in the seen set of a node, and every
\* value of a gossip task or of a message between the nodes, is the value of a
\* broadcast request a client has sent to a node; and a value enters a seen
\* set with the broadcast request of a client, or with a gossip request of a
\* node that has the value in its own seen set.
C31_BroadcastValidity ==
    /\ [](/\ \A n \in CNodes : c_seen[n] \subseteq CBroadcastValues
          /\ \A x \in c_wire : x.message \in CBroadcastValues
          /\ \A t \in c_tasks : t.message \in CBroadcastValues
          /\ CBroadcastValues = Broadcasted)
    /\ [][\A n \in CNodes : \A v \in c_seen'[n] \ c_seen[n] :
             \/ c_sent' = v /\ c_sent = v - 1
             \/ \E q \in c_wire \ c_wire' :
                   /\ q.type = "gossip" /\ q.dest = n /\ q.message = v
                   /\ v \in c_seen[q.src]]_vars

\* The value of a broadcast has reached, by gossip over the node between
\* them, a node that is no neighbor of the node the client sent it to.
C31_Witness ==
    \E n \in CNodes : \E v \in c_seen[n] :
        /\ \A r \in c_out : r.type \in {"broadcast_ok", "error"} => r.src # n
        /\ \E t \in c_tasks : t.by = "gossip" /\ t.to = n /\ t.message = v /\ t.st = "done"

\* ------------------------------------------------------ the fan-out of a read
\* The tasks of the read requests of a counter node, those of clients among
\* them, and the reads the node has sent to nodes.
CounterReads ==
    {t \in DOMAIN tasks : bin = "counter" /\ tasks[t].kind = "line" /\ tasks[t].line.type = "read"}
ClientReads == {t \in CounterReads : tasks[t].line.src[1] = "c"}
PeerReads == {m \in out : bin = "counter" /\ m.type = "read" /\ m.dest[1] = "n"}

\* C32: counter read fan-out is bounded: the read of a node is answered after
\* the one read of the node's own bucket in seq-kv, with no read sent to a
\* node; the read of a client sends, after that one, one read at most to each
\* other node of node_ids, in their order, and none to the node itself; so the
\* reads sent to nodes are no more than the reads of clients times the other
\* nodes.
C32_ReadFanOutBounded ==
    /\ [](/\ \A t \in CounterReads \ ClientReads :
                /\ tasks[t].ncalls <= 1
                /\ tasks[t].call.st # "none" => tasks[t].call.req.dest = SeqKv
          /\ \A t \in ClientReads : tasks[t].ncalls <= 1 + Len(OtherNodes)
          /\ \A m \in PeerReads : m.dest # Me
          /\ Cardinality(PeerReads) <= Cardinality(ClientReads) * Len(OtherNodes))
    /\ [][\A t \in DOMAIN tasks :
             (/\ tasks'[t].ncalls # tasks[t].ncalls
              /\ tasks'[t].call.req.type = "read" /\ tasks'[t].call.req.dest[1] = "n")
                 => /\ t \in ClientReads
                    /\ tasks'[t].ncalls = tasks[t].ncalls + 1
                    /\ tasks'[t].ncalls - 1 \in 1..Len(OtherNodes)
                    /\ tasks'[t].call.req.dest = node_id(OtherNodes[tasks'[t].ncalls - 1])
         ]_vars

\* The read of a node has been answered after one call, and the read of a
\* client after it asked the other node.
C32_Witness ==
    /\ \E t \in CounterReads \ ClientReads :
          /\ tasks[t].pc = "done" /\ tasks[t].ncalls = 1
          /\ \E m \in out : m.type = "read_ok" /\ m.dest = tasks[t].line.src
    /\ \E t \in ClientReads :
          /\ tasks[t].pc = "done" /\ tasks[t].ncalls = 2
          /\ \E m \in out : m.type = "read_ok" /\ m.dest = tasks[t].line.src

====
